---- MODULE Spec2Model ----
(***************************************************************************)
(* TouchManager (touchdc): the device / registry state-reconciliation core *)
(* Run.run_ps, Reg.{test,get,set,del}_reg, Device and Observable.          *)
(*                                                                         *)
(* A call of the program is one action.  The called function is an        *)
(* operator from a context (registry, devices, event log) to the SET of    *)
(* outcomes the call can have: one outcome per combination of external     *)
(* command results and answers of the consent dialog Ask.elevate.          *)
(***************************************************************************)
EXTENDS Integers, Sequences, FiniteSets, TLC

VARIABLES keys, vals, dev, cls, observers, last

vars == <<keys, vals, dev, cls, observers, last>>

(***************************************************************************)
(* Bounds                                                                  *)
(***************************************************************************)
MaxData == 1
NumObservers == 1
MaxCode == 12
\* processes that fail in one call of a card's toggle
MaxFaults == 1

(***************************************************************************)
(* Python values: int, str, a one-element list of str, None.               *)
(* Records with the same fields, so that == of the program is = here.      *)
(***************************************************************************)
PyInt(n) == [tag |-> "int", i |-> n, s |-> ""]
PyStr(t) == [tag |-> "str", i |-> 0, s |-> t]
PyList(t) == [tag |-> "list", i |-> 0, s |-> t]
PyNone == [tag |-> "none", i |-> 0, s |-> ""]

(***************************************************************************)
(* Results and outcomes                                                    *)
(***************************************************************************)
Ok(v) == [k |-> "ok", e |-> "", v |-> v]
Raise(e) == [k |-> "raise", e |-> e, v |-> PyNone]
Out(c, r) == [c |-> c, r |-> r]

Ev(t, cmd, elev, fault, ans) ==
    [t |-> t, cmd |-> cmd, elev |-> elev, fault |-> fault, ans |-> ans]
Logged(c, e) == [c EXCEPT !.log = Append(@, e)]

\* the temporary files of the calls, in order of creation: each is there
\* ("exists"), removed ("deleted") or could not be removed ("failed")
Made(c, kinds) ==
    [c EXCEPT !.tmp = c.tmp \o [i \in 1..Len(kinds) |->
                                  [kind |-> kinds[i], state |-> "exists"]]]
Removed(c, idx, state) ==
    [c EXCEPT !.tmp = [i \in DOMAIN c.tmp |->
                          IF i \in idx THEN [kind |-> c.tmp[i].kind, state |-> state]
                          ELSE c.tmp[i]]]

(***************************************************************************)
(* Text of a process: blocks separated by blank lines, lines in a block.   *)
(* A line is a field "k: v" or plain text v.                               *)
(***************************************************************************)
Line(k, v) == [k |-> k, v |-> v]
Message(m) == << << Line("", m) >> >>
NoText == << >>
Tokens(text) ==
    UNION { UNION { {text[b][l].k, text[b][l].v} : l \in 1..Len(text[b]) }
            : b \in 1..Len(text) } \ {""}
Stripped(text) == Tokens(text) # {}

MsgNotAllowed == "Requested registry access is not allowed."
MsgDenied == "Access is denied."
MsgCancelled == "The operation was canceled by the user."
MsgNoPath == "Cannot find path because it does not exist."
MsgItemNotFound == "System.Management.Automation.ItemNotFoundException"
MsgUnexpected == "unexpected output"
MsgBadValue == "Cannot convert value to the requested type."
MsgNotRecognized == "The term is not recognized as the name of a cmdlet"
MsgBlocked == "This program is blocked by group policy."

\* re.IGNORECASE over the spellings in use
Fold(t) ==
    CASE t = "ACCESS IS DENIED." -> MsgDenied
      [] t = "access is denied." -> MsgDenied
      [] t = "the operation was canceled by the user." -> MsgCancelled
      [] t = "THIS PROGRAM IS BLOCKED BY GROUP POLICY." -> MsgBlocked
      [] t = "cannot find path because it does not exist." -> MsgNoPath
      [] t = "DEVICE IS ALREADY ENABLED." -> "Device is already enabled."
      [] OTHER -> t
Folded(text) == { Fold(t) : t \in Tokens(text) }

(***************************************************************************)
(* cmd_errors.check_error                                                  *)
(***************************************************************************)
CmdErrorOrder == <<"AccessDeniedError", "UserAbortedError",
                   "CommandNotFoundError", "PowershellDisabledError">>
CmdErrorMap(e) ==
    CASE e = "AccessDeniedError" -> {MsgNotAllowed, MsgDenied}
      [] e = "UserAbortedError" -> {MsgCancelled}
      [] e = "CommandNotFoundError" ->
            {MsgNotRecognized}
      [] e = "PowershellDisabledError" ->
            {MsgBlocked}
      [] OTHER -> {}

\* a faulty variant of FirstMatch: the last error of the map wins
LastMatch(order, matched) ==
    LET hit == { n \in 1..Len(order) : order[n] \in matched }
    IN IF hit = {} THEN "none"
       ELSE order[CHOOSE n \in hit : \A m \in hit : m <= n]

\* the first error of the map, in its order, among those matched
FirstMatch(order, matched) ==
    LET hit == { n \in 1..Len(order) : order[n] \in matched }
    IN IF hit = {} THEN "none"
       ELSE order[CHOOSE n \in hit : \A m \in hit : n <= m]

CmdCheckError(text, errors) ==
    FirstMatch(CmdErrorOrder,
               { e \in errors : Folded(text) \cap CmdErrorMap(e) # {} })
AllCmdErrors == { CmdErrorOrder[n] : n \in 1..Len(CmdErrorOrder) }

(***************************************************************************)
(* reg_errors.check_error                                                  *)
(***************************************************************************)
RegErrorOrder == <<"RegistryPermissionError", "RegistryItemNotFoundError",
                   "RegistryItemExistsError">>
RegErrorMap(e) ==
    CASE e = "RegistryPermissionError" -> {MsgNotAllowed, MsgDenied}
      [] e = "RegistryItemNotFoundError" -> {MsgNoPath, MsgItemNotFound}
      [] e = "RegistryItemExistsError" -> {"The key already exists."}
      [] OTHER -> {}
AllRegErrors == { RegErrorOrder[n] : n \in 1..Len(RegErrorOrder) }
\* reg_errors.check_error(output, errors=...)
RegCheck(text, errors) ==
    FirstMatch(RegErrorOrder,
               { e \in errors : Folded(text) \cap RegErrorMap(e) # {} })
\* check_error(output): every error of the map
RegCheckError(text) == RegCheck(text, AllRegErrors)

(***************************************************************************)
(* Registry type tables of Reg                                             *)
(***************************************************************************)
TInt(n) == [tag |-> "int", i |-> n, s |-> ""]
TStr(t) == [tag |-> "str", i |-> 0, s |-> t]

WINAPI_REG_TYPES(t) ==
    CASE t = "REG_NONE" -> 0
      [] t = "REG_SZ" -> 1
      [] t = "REG_EXPAND_SZ" -> 2
      [] t = "REG_BINARY" -> 3
      [] t = "REG_DWORD" -> 4
      [] t = "REG_DWORD_LITTLE_ENDIAN" -> 4
      [] t = "REG_DWORD_BIG_ENDIAN" -> 5
      [] t = "REG_LINK" -> 6
      [] t = "REG_MULTI_SZ" -> 7
      [] t = "REG_RESOURCE_LIST" -> 8
      [] t = "REG_FULL_RESOURCE_DESCRIPTOR" -> 9
      [] t = "REG_RESOURCE_REQUIREMENTS_LIST" -> 10
      [] t = "REG_QWORD" -> 11
      [] t = "REG_QWORD_LITTLE_ENDIAN" -> 11
      [] OTHER -> 0

REG_VALUE_KINDS(t) ==
    CASE t = "NONE" -> -1
      [] t = "UNKNOWN" -> 0
      [] t = "STRING" -> 1
      [] t = "EXPANDSTRING" -> 2
      [] t = "BINARY" -> 3
      [] t = "DWORD" -> 4
      [] t = "MULTISTRING" -> 7
      [] t = "QWORD" -> 11
      [] OTHER -> 0

REG_VALUE_KIND_NAMES(n) ==
    CASE n = -1 -> "NONE"
      [] n = 0 -> "UNKNOWN"
      [] n = 1 -> "STRING"
      [] n = 2 -> "EXPANDSTRING"
      [] n = 3 -> "BINARY"
      [] n = 4 -> "DWORD"
      [] n = 7 -> "MULTISTRING"
      [] n = 11 -> "QWORD"
      [] OTHER -> ""

REG_FRIENDLY_NAMES(t) ==
    CASE t = "NONE" -> "None"
      [] t = "UNKNOWN" -> "Unknown"
      [] t = "STRING" -> "String"
      [] t = "EXPANDSTRING" -> "ExpandString"
      [] t = "BINARY" -> "Binary"
      [] t = "DWORD" -> "DWord"
      [] t = "MULTISTRING" -> "MultiString"
      [] t = "QWORD" -> "QWord"
      [] OTHER -> ""

SUPPORTED_REG_TYPES == {-1, 0, 1, 2, 3, 4, 7, 11}

\* str.strip().upper() on the spellings in use
Upper(t) ==
    CASE t \in {"DWord", "dword", " DWord "} -> "DWORD"
      [] t \in {"QWord", "qword"} -> "QWORD"
      [] t \in {"String", "string"} -> "STRING"
      [] t \in {"ExpandString", "expandstring"} -> "EXPANDSTRING"
      [] t \in {"MultiString", "multistring"} -> "MULTISTRING"
      [] t \in {"Binary", "binary"} -> "BINARY"
      [] t \in {"None", "none"} -> "NONE"
      [] t \in {"Unknown", "unknown"} -> "UNKNOWN"
      [] t \in {"reg_dword", "Reg_DWord"} -> "REG_DWORD"
      [] t \in {"reg_sz"} -> "REG_SZ"
      [] t \in {"reg_link"} -> "REG_LINK"
      [] t \in {"sz"} -> "SZ"
      [] t \in {"link", "Link"} -> "LINK"
      [] t \in {"bogus"} -> "BOGUS"
      [] OTHER -> t

WinapiNames ==
    {"REG_NONE", "REG_SZ", "REG_EXPAND_SZ", "REG_BINARY", "REG_DWORD",
     "REG_DWORD_LITTLE_ENDIAN", "REG_DWORD_BIG_ENDIAN", "REG_LINK",
     "REG_MULTI_SZ", "REG_RESOURCE_LIST", "REG_FULL_RESOURCE_DESCRIPTOR",
     "REG_RESOURCE_REQUIREMENTS_LIST", "REG_QWORD", "REG_QWORD_LITTLE_ENDIAN"}
KindNames ==
    {"NONE", "UNKNOWN", "STRING", "EXPANDSTRING", "BINARY", "DWORD",
     "MULTISTRING", "QWORD"}

\* t.startswith('REG_')
StartsWithReg(t) == t \in WinapiNames \cup {"REG_BOGUS", "REG_STRING"}

\* 'REG_' + t
RegPrefixed(t) ==
    CASE t = "NONE" -> "REG_NONE"
      [] t = "SZ" -> "REG_SZ"
      [] t = "EXPAND_SZ" -> "REG_EXPAND_SZ"
      [] t = "BINARY" -> "REG_BINARY"
      [] t = "DWORD" -> "REG_DWORD"
      [] t = "LINK" -> "REG_LINK"
      [] t = "MULTI_SZ" -> "REG_MULTI_SZ"
      [] t = "QWORD" -> "REG_QWORD"
      [] t = "DWORD_BIG_ENDIAN" -> "REG_DWORD_BIG_ENDIAN"
      [] t = "RESOURCE_LIST" -> "REG_RESOURCE_LIST"
      [] t = "STRING" -> "REG_STRING"
      [] t = "UNKNOWN" -> "REG_UNKNOWN"
      [] t = "EXPANDSTRING" -> "REG_EXPANDSTRING"
      [] t = "MULTISTRING" -> "REG_MULTISTRING"
      [] OTHER -> "REG_?"

\* a faulty variant of Supported: the code is passed on as it is
SupportedAny(i) == i

\* reg.py:107-109
Supported(i) == IF i \in SUPPORTED_REG_TYPES THEN i ELSE 0

\* Reg.normalise of one type: Ok(code), or ValueError
Normalise(t) ==
    IF t.tag = "int" THEN Ok(Supported(t.i))
    ELSE LET u == Upper(t.s)
         IN IF StartsWithReg(u)
            THEN IF u \in WinapiNames THEN Ok(Supported(WINAPI_REG_TYPES(u)))
                 ELSE Raise("ValueError")
            ELSE IF RegPrefixed(u) \in WinapiNames
                 THEN Ok(Supported(WINAPI_REG_TYPES(RegPrefixed(u))))
                 ELSE IF u \in KindNames THEN Ok(Supported(REG_VALUE_KINDS(u)))
                      ELSE Raise("ValueError")

\* Reg.get_name of one type: Ok(name), or ValueError
GetName(t, pretty) ==
    LET n == Normalise(t)
    IN IF n.k = "raise" THEN n
       ELSE LET nm == REG_VALUE_KIND_NAMES(n.v)
            IN IF nm = "" THEN Raise("ValueError")
               ELSE IF pretty
                    THEN IF REG_FRIENDLY_NAMES(nm) = "" THEN Raise("ValueError")
                         ELSE Ok(REG_FRIENDLY_NAMES(nm))
                    ELSE Ok(nm)

(***************************************************************************)
(* The registry: keys is the set of existing key paths (closed under       *)
(* prefixes), vals maps <<path, name>> to [kind, data].                    *)
(***************************************************************************)
NoName == "<None>"
Prefixes(p) == { SubSeq(p, 1, n) : n \in 1..Len(p) }
IsPrefix(p, q) == Len(p) <= Len(q) /\ SubSeq(q, 1, Len(p)) = p
Entry(kind, data) == [kind |-> kind, data |-> data]
PutVal(f, x, e) == [y \in DOMAIN f \cup {x} |-> IF y = x THEN e ELSE f[y]]
DropVals(f, gone) == [y \in DOMAIN f \ gone |-> f[y]]

(***************************************************************************)
(* Conversions on the way to and from PowerShell                           *)
(***************************************************************************)
Digits == <<"0", "1", "2", "3", "4", "5", "6", "7", "8", "9">>
\* f"{value}" of reg.py:332,350
Fmt(v) ==
    CASE v.tag = "int" -> IF v.i \in 0..9 THEN Digits[v.i + 1] ELSE "many"
      [] v.tag = "str" -> v.s
      [] v.tag = "list" -> IF v.s = "a" THEN "['a']" ELSE "['...']"
      [] OTHER -> "None"
\* the text breaks out of the single-quoted literal '...'
HasQuote(t) == t \in {"['a']", "['...']", "it's"}
IsNumber(t) == \E n \in 1..10 : Digits[n] = t
NumberOf(t) == (CHOOSE n \in 1..10 : Digits[n] = t) - 1

\* -Type / -PropertyType: the value is stored as the kind says; Unknown
\* keeps the kind of an existing value and else takes the kind of the
\* literal, a string.
ConvertValueToKind(text, kindName, old) ==
    LET asked == REG_VALUE_KINDS(Upper(kindName))
        kind == IF asked # 0 THEN asked
                ELSE IF old.kind # 0 THEN old.kind ELSE 1
    IN CASE kind \in {4, 11} ->
               IF IsNumber(text) THEN Ok(Entry(kind, PyInt(NumberOf(text))))
               ELSE Raise(MsgBadValue)
         [] kind \in {1, 2} -> Ok(Entry(kind, PyStr(text)))
         [] kind = 7 -> Ok(Entry(kind, PyList(text)))
         [] OTHER -> Raise(MsgBadValue)

NoEntry == Entry(0, PyNone)
NoJson == [data |-> PyNone, type |-> ""]

(***************************************************************************)
(* External commands.  Exec is what the process does to the registry and   *)
(* the devices and what it prints, when nothing goes wrong (fault "none"); *)
(* "denied" prints an access-denied text and "junk" an unclassified one,   *)
(* both without effect.                                                    *)
(***************************************************************************)
Cmd(kind, path, name, value, type) ==
    [kind |-> kind, path |-> path, name |-> name, value |-> value, type |-> type]

Res(c, rc, out, err, json) ==
    [c |-> c, rc |-> rc, out |-> out, err |-> err, json |-> json]

ExecTestPath(c, cmd) ==
    Res(c, 0, Message(IF cmd.path \in c.keys THEN "True" ELSE "False"),
        NoText, NoJson)

ExecGetItem(c, cmd) ==
    IF cmd.path \notin c.keys THEN Res(c, 1, NoText, Message(MsgNoPath), NoJson)
    ELSE IF <<cmd.path, cmd.name>> \notin DOMAIN c.vals
         THEN Res(c, 1, NoText, Message(MsgItemNotFound), NoJson)
         ELSE LET e == c.vals[<<cmd.path, cmd.name>>]
              IN Res(c, 0, NoText, NoText,
                     [data |-> e.data,
                      type |-> REG_FRIENDLY_NAMES(REG_VALUE_KIND_NAMES(e.kind))])

ExecSetItemProperty(c, cmd) ==
    IF HasQuote(cmd.value) THEN Res(c, 1, NoText, Message(MsgUnexpected), NoJson)
    ELSE IF cmd.path \notin c.keys
         THEN Res(c, 1, NoText, Message(MsgNoPath), NoJson)
         ELSE LET x == <<cmd.path, cmd.name>>
                  old == IF x \in DOMAIN c.vals THEN c.vals[x] ELSE NoEntry
                  e == ConvertValueToKind(cmd.value, cmd.type, old)
              IN IF e.k = "raise" THEN Res(c, 1, NoText, Message(e.e), NoJson)
                 ELSE Res([c EXCEPT !.vals = PutVal(@, x, e.v)],
                          0, NoText, NoText, NoJson)

\* New-Item -Force [| New-ItemProperty -Force]: the key is made anew, with
\* its missing parents
ExecNewItem(c, cmd) ==
    IF cmd.name # NoName /\ HasQuote(cmd.value)
    THEN Res(c, 1, NoText, Message(MsgUnexpected), NoJson)
    ELSE LET c1 == [c EXCEPT !.keys = @ \cup Prefixes(cmd.path),
                             !.vals = DropVals(@, { x \in DOMAIN @ : x[1] = cmd.path })]
             e == ConvertValueToKind(cmd.value, cmd.type, NoEntry)
         IN IF cmd.name = NoName THEN Res(c1, 0, NoText, NoText, NoJson)
            ELSE IF e.k = "raise" THEN Res(c1, 1, NoText, Message(e.e), NoJson)
            ELSE Res([c1 EXCEPT !.vals = PutVal(@, <<cmd.path, cmd.name>>, e.v)],
                     0, NoText, NoText, NoJson)

ExecRemoveItem(c, cmd) ==
    IF cmd.path \notin c.keys THEN Res(c, 1, NoText, Message(MsgNoPath), NoJson)
    ELSE Res([c EXCEPT !.keys = { p \in @ : ~IsPrefix(cmd.path, p) },
                       !.vals = DropVals(@, { x \in DOMAIN @ : IsPrefix(cmd.path, x[1]) })],
             0, NoText, NoText, NoJson)

ExecRemoveItemProperty(c, cmd) ==
    IF <<cmd.path, cmd.name>> \notin DOMAIN c.vals
    THEN Res(c, 1, NoText, Message(MsgNoPath), NoJson)
    ELSE Res([c EXCEPT !.vals = DropVals(@, {<<cmd.path, cmd.name>>})],
             0, NoText, NoText, NoJson)

(***************************************************************************)
(* pnputil.  dev is the list of HIDClass devices, one block each.          *)
(***************************************************************************)
MsgHeader == "Microsoft PnP Utility"
MsgEnabled == "Device enabled successfully."
MsgDisabled == "Device disabled successfully."
MsgAlreadyEnabled == "Device is already enabled."
MsgAlreadyDisabled == "Device is already disabled."

\* a device with a problem is listed with its problem code and status
BlockOf(d) ==
    << Line("Instance ID", d.id), Line("Device Description", d.desc),
       Line("Status", d.status) >>
    \o (IF d.status = "Problem"
        THEN << Line("Problem Code", "28 (0x1C) [CM_PROB_FAILED_INSTALL]"),
                Line("Problem Status", "0xC0000490") >>
        ELSE << >>)

ExecEnumDevices(c, cmd) ==
    Res(c, 0, << << Line("", MsgHeader) >> >> \o [n \in 1..Len(c.dev) |-> BlockOf(c.dev[n])],
        NoText, NoJson)

\* pnputil /enable-device id, /disable-device id: an unknown id fails silently
ExecToggleDevice(c, cmd) ==
    LET hit == { n \in 1..Len(c.dev) : c.dev[n].id = cmd.name }
        on == cmd.kind = "enable-device"
    IN IF hit = {} THEN Res(c, 0, Message(MsgHeader), NoText, NoJson)
       ELSE LET n == CHOOSE m \in hit : TRUE
                isOn == c.dev[n].status # "Disabled"
            IN IF on = isOn
               THEN Res(c, 50, Message(IF on THEN MsgAlreadyEnabled
                                       ELSE MsgAlreadyDisabled), NoText, NoJson)
               ELSE Res([c EXCEPT !.dev[n].status = IF on THEN "Started" ELSE "Disabled"],
                        0, << << Line("", MsgHeader) >>,
                              << Line("", IF on THEN MsgEnabled ELSE MsgDisabled) >> >>,
                        NoText, NoJson)

Exec(c, cmd, fault) ==
    CASE fault = "denied" -> Res(c, 1, NoText, Message(MsgDenied), NoJson)
      [] fault = "junk" -> Res(c, 1, NoText, Message(MsgUnexpected), NoJson)
      [] fault = "silent" -> Res(c, 0, Message(MsgHeader), NoText, NoJson)
      [] fault = "blocked" -> Res(c, 1, NoText, Message(MsgBlocked), NoJson)
      [] cmd.kind = "Test-Path" -> ExecTestPath(c, cmd)
      [] cmd.kind = "Get-Item" -> ExecGetItem(c, cmd)
      [] cmd.kind = "Set-ItemProperty" -> ExecSetItemProperty(c, cmd)
      [] cmd.kind = "New-Item" -> ExecNewItem(c, cmd)
      [] cmd.kind = "Remove-Item" -> ExecRemoveItem(c, cmd)
      [] cmd.kind = "Remove-ItemProperty" -> ExecRemoveItemProperty(c, cmd)
      [] cmd.kind = "enum-devices" -> ExecEnumDevices(c, cmd)
      [] cmd.kind \in {"enable-device", "disable-device"} -> ExecToggleDevice(c, cmd)
      [] cmd.kind = "None-device" -> Res(c, 1, Message(MsgUnexpected), NoText, NoJson)
      [] cmd.kind = "hello" -> Res(c, 1, NoText, Message(MsgNotRecognized), NoJson)
      [] cmd.kind = "unencodable" -> Res(c, 1, NoText, Message(MsgUnexpected), NoJson)
      [] OTHER -> Res(c, 0, Message("hello"), NoText, NoJson)

\* what a process can do: run as asked, or fail; an elevated one can also be
\* refused at the UAC dialog of Start-Process -Verb RunAs
Faults(elevate) ==
    IF elevate THEN {"none", "denied", "junk", "uac"} ELSE {"none", "denied", "junk"}

\* model.py:316: pnputil does not validate the instance id and fails
\* silently, with return code 0 and only its banner printed
SilentFaults(cmd) ==
    IF cmd.kind \in {"enable-device", "disable-device"} THEN {"silent"} ELSE {}

\* the commands given to Run directly: 'echo hello' (the probe of test_ps),
\* an unknown command, and a text with a lone surrogate, which
\* str.encode('utf-16-le') refuses
RunCmds == { Cmd(k, << >>, NoName, "", "") : k \in {"echo", "hello", "unencodable"} }
\* what can further happen to the probe: the shell is blocked by group
\* policy, or the files of an elevated run cannot be removed afterwards
ProbeFaults(cmd, elevate) ==
    IF cmd.kind # "echo" THEN {}
    ELSE IF elevate THEN {"blocked", "locked"} ELSE {"blocked"}

(***************************************************************************)
(* Run.run_ps                                                              *)
(***************************************************************************)
AskEv(ans) == Ev("ask", Cmd("Ask.elevate", << >>, NoName, "", ""), FALSE, "none", ans)
Returned(x) == Ok([rc |-> x.rc, out |-> x.out, err |-> x.err, json |-> x.json])

RECURSIVE RunPs(_, _, _, _, _)

\* a faulty variant of RunPsCheck: the command is rerun elevated whatever
\* Ask.elevate answers
RunPsCheckIgnoringAnswer(x, cmd, elevate, auto_elevate, check) ==
    IF CmdCheckError(x.out \o x.err, {"AccessDeniedError"}) = "AccessDeniedError"
    THEN IF auto_elevate /\ ~elevate
         THEN RunPs(Logged(x.c, AskEv(TRUE)), cmd, TRUE, TRUE, FALSE)
              \cup RunPs(Logged(x.c, AskEv(FALSE)), cmd, TRUE, TRUE, FALSE)
         ELSE IF check THEN {Out(x.c, Raise("AccessDeniedError"))}
              ELSE {Out(x.c, Returned(x))}
    ELSE {Out(x.c, Returned(x))}

\* a faulty variant of RunPsCheck: an elevated rerun that is denied is run
\* once more
RunPsCheckAgain(x, cmd, elevate, auto_elevate, check) ==
    IF CmdCheckError(x.out \o x.err, {"AccessDeniedError"}) = "AccessDeniedError"
    THEN IF auto_elevate /\ ~elevate
         THEN RunPs(Logged(x.c, AskEv(TRUE)), cmd, TRUE, TRUE, FALSE)
              \cup {Out(Logged(x.c, AskEv(FALSE)), Raise("UserAbortedError"))}
         ELSE IF auto_elevate THEN RunPs(x.c, cmd, TRUE, FALSE, FALSE)
         ELSE IF check THEN {Out(x.c, Raise("AccessDeniedError"))}
              ELSE {Out(x.c, Returned(x))}
    ELSE {Out(x.c, Returned(x))}

\* a faulty variant of RunPsCheck: auto_elevate is not consulted
RunPsCheckEager(x, cmd, elevate, auto_elevate, check) ==
    IF CmdCheckError(x.out \o x.err, {"AccessDeniedError"}) = "AccessDeniedError"
    THEN IF ~elevate
         THEN RunPs(Logged(x.c, AskEv(TRUE)), cmd, TRUE, TRUE, FALSE)
              \cup {Out(Logged(x.c, AskEv(FALSE)), Raise("UserAbortedError"))}
         ELSE IF check THEN {Out(x.c, Raise("AccessDeniedError"))}
              ELSE {Out(x.c, Returned(x))}
    ELSE {Out(x.c, Returned(x))}

\* run.py:162-177
RunPsCheck(x, cmd, elevate, auto_elevate, check) ==
    IF CmdCheckError(x.out \o x.err, {"AccessDeniedError"}) = "AccessDeniedError"
    THEN IF auto_elevate /\ ~elevate
         THEN RunPs(Logged(x.c, AskEv(TRUE)), cmd, TRUE, TRUE, FALSE)
              \cup {Out(Logged(x.c, AskEv(FALSE)), Raise("UserAbortedError"))}
         ELSE IF check THEN {Out(x.c, Raise("AccessDeniedError"))}
              ELSE {Out(x.c, Returned(x))}
    ELSE {Out(x.c, Returned(x))}

\* run.py:101-160, one process with one behaviour; the output of the
\* process that elevates is classified whatever check says (run.py:112-115)
RunPsProcess(c, cmd, elevate, auto_elevate, check, fault) ==
    LET c1 == Logged(c, Ev("cmd", cmd, elevate, fault, FALSE))
    IN IF elevate /\ fault = "uac"
       THEN {Out(c1, Raise(CmdCheckError(Message(MsgCancelled), AllCmdErrors)))}
       ELSE IF elevate /\ fault = "blocked"
       THEN {Out(c1, Raise(CmdCheckError(Message(MsgBlocked), AllCmdErrors)))}
       ELSE RunPsCheck(Exec(c1, cmd, IF fault = "locked" THEN "none" ELSE fault),
                       cmd, elevate, auto_elevate, check)

\* run.py:46-64, 179-188: the four files of an elevated run are known to
\* the cleanup only once all are made and the script is written
RunPsOnce(c, cmd, elevate, auto_elevate, check, fault) ==
    IF ~elevate THEN RunPsProcess(c, cmd, elevate, auto_elevate, check, fault)
    ELSE LET c0 == Made(c, <<"script", "stdout", "stderr", "retcode">>)
             files == (Len(c.tmp) + 1)..(Len(c.tmp) + 4)
         IN IF cmd.kind = "unencodable"
            THEN {Out(c0, Raise("UnicodeEncodeError"))}
            ELSE { Out(Removed(o.c, files,
                               IF fault = "locked" THEN "failed" ELSE "deleted"), o.r)
                   : o \in RunPsProcess(c0, cmd, elevate, auto_elevate, check, fault) }

RunPs(c, cmd, elevate, auto_elevate, check) ==
    UNION { RunPsOnce(c, cmd, elevate, auto_elevate, check, f)
            : f \in Faults(elevate) \cup SilentFaults(cmd) \cup ProbeFaults(cmd, elevate) }

\* Run.test_ps, run.py:190-201
TestPs(c) ==
    { IF o.r.k = "raise"
      THEN IF o.r.e = "PowershellDisabledError" THEN Out(o.c, Ok(FALSE)) ELSE o
      ELSE Out(o.c, Ok(TRUE))
      : o \in RunPs(c, Cmd("echo", << >>, NoName, "", ""), FALSE, FALSE, FALSE) }

(***************************************************************************)
(* Reg                                                                     *)
(***************************************************************************)
\* Reg.handle_error, reg.py:151-164
RegWrap(r) ==
    IF r.k = "raise" /\ r.e = "UserAbortedError"
    THEN Raise("RegistryOperationAbortedError")
    ELSE IF r.k = "raise" /\ r.e = "AccessDeniedError"
         THEN Raise("RegistryPermissionError")
         ELSE r
RegHandleError(S) == { Out(o.c, RegWrap(o.r)) : o \in S }

RECURSIVE GetReg(_, _, _, _, _)

\* reg.py:275-293
GetRegParse(c, x) ==
    IF x.json = NoJson THEN {Out(c, Raise("AssertionError"))}
    ELSE LET n == Normalise(TStr(x.json.type))
         IN IF n.k = "raise" THEN {Out(c, n)}
            ELSE {Out(c, Ok([data |-> x.json.data, type |-> n.v]))}

\* reg.py:264-273
GetRegOutput(c, x, path, name, elevate, auto_elevate) ==
    IF Stripped(x.out) \/ Stripped(x.err)
    THEN LET e == RegCheckError(x.out \o x.err)
         IN IF e = "RegistryPermissionError"
            THEN IF auto_elevate /\ ~elevate
                 THEN GetReg(Logged(c, AskEv(TRUE)), path, name, TRUE, TRUE)
                      \cup {Out(Logged(c, AskEv(FALSE)), Raise(e))}
                 ELSE {Out(c, Raise(e))}
            ELSE IF e # "none" THEN {Out(c, Raise(e))}
                 ELSE {Out(c, Raise("RuntimeError"))}
    ELSE GetRegParse(c, x)

\* reg.py:238-286: the json file is made first and removed in the finally
GetReg(c, path, name, elevate, auto_elevate) ==
    LET c0 == Made(c, <<"json">>)
        done == UNION {
            IF o.r.k = "raise" THEN {o}
            ELSE GetRegOutput(o.c, o.r.v, path, name, elevate, auto_elevate)
            : o \in RunPs(c0, Cmd("Get-Item", path, name, "", ""),
                          elevate, auto_elevate, FALSE) }
    IN RegHandleError({ Out(Removed(o.c, {Len(c.tmp) + 1}, "deleted"), o.r)
                        : o \in done })

\* reg.py:180-187
TestRegPath(o) ==
    IF o.r.k = "raise" THEN o
    ELSE IF o.r.v.out = Message("True") THEN Out(o.c, Ok(TRUE))
    ELSE IF o.r.v.out = Message("False") THEN Out(o.c, Ok(FALSE))
    ELSE Out(o.c, Raise("RuntimeError"))

\* a faulty variant of TestRegValue: a value that is not found is an error
TestRegValueStrict(o) ==
    IF o.r.k = "ok" THEN Out(o.c, Ok(TRUE)) ELSE o

\* reg.py:190-195
TestRegValue(o) ==
    IF o.r.k = "ok" THEN Out(o.c, Ok(TRUE))
    ELSE IF o.r.e = "RegistryItemNotFoundError" THEN Out(o.c, Ok(FALSE))
    ELSE o

TestReg(c, path, name, elevate, auto_elevate) ==
    RegHandleError(
        IF name = NoName
        THEN { TestRegPath(o) :
               o \in RunPs(c, Cmd("Test-Path", path, NoName, "", ""), elevate, auto_elevate, FALSE) }
        ELSE { TestRegValue(o) : o \in GetReg(c, path, name, elevate, auto_elevate) })

RECURSIVE SetReg(_, _, _, _, _, _, _, _)

\* reg.py:358-367
SetRegOutput(o, path, name, elevate, auto_elevate) ==
    IF o.r.k = "raise" THEN {o}
    ELSE IF Stripped(o.r.v.out) \/ Stripped(o.r.v.err)
    THEN LET e == RegCheckError(o.r.v.out \o o.r.v.err)
         IN IF e = "RegistryPermissionError"
            THEN IF auto_elevate /\ ~elevate
                 THEN SetReg(Logged(o.c, AskEv(TRUE)), path, name, PyNone, PyNone,
                             TRUE, TRUE, TRUE)
                      \cup {Out(Logged(o.c, AskEv(FALSE)), Raise(e))}
                 ELSE {Out(o.c, Raise(e))}
            ELSE IF e # "none" THEN {Out(o.c, Raise(e))}
                 ELSE {Out(o.c, Raise("RuntimeError"))}
    ELSE {Out(o.c, Ok(PyNone))}

\* reg.py:343-344: the second test of the path, on the branch where the
\* first one found no key
SetRegPrecheck(t) == ~t

\* reg.py:334-356
SetRegNew(c, path, name, value, reg_type, new_property, elevate, auto_elevate) ==
    UNION {
        IF t.r.k = "raise" THEN {t}
        ELSE IF SetRegPrecheck(t.r.v) THEN {Out(t.c, Raise("RuntimeError"))}
        ELSE IF new_property /\ GetName(reg_type, FALSE).k = "raise"
        THEN {Out(t.c, GetName(reg_type, FALSE))}
        ELSE UNION {
            SetRegOutput(o, path, name, elevate, auto_elevate)
            : o \in RunPs(t.c,
                          IF new_property
                          THEN Cmd("New-Item", path, name, Fmt(value), GetName(reg_type, FALSE).v)
                          ELSE Cmd("New-Item", path, NoName, "", ""),
                          elevate, auto_elevate, FALSE) }
        : t \in TestReg(c, path, NoName, elevate, auto_elevate) }

\* reg.py:327-332
SetRegWrite(c, path, name, value, reg_type, new_property, elevate, auto_elevate) ==
    UNION {
        IF t.r.k = "raise" THEN {t}
        ELSE IF t.r.v
        THEN IF ~new_property THEN {Out(t.c, Ok(PyNone))}
             ELSE IF GetName(reg_type, FALSE).k = "raise"
             THEN {Out(t.c, GetName(reg_type, FALSE))}
             ELSE UNION {
                 SetRegOutput(o, path, name, elevate, auto_elevate)
                 : o \in RunPs(t.c,
                               Cmd("Set-ItemProperty", path, name, Fmt(value),
                                   GetName(reg_type, FALSE).v),
                               elevate, auto_elevate, FALSE) }
        ELSE SetRegNew(t.c, path, name, value, reg_type, new_property, elevate, auto_elevate)
        : t \in TestReg(c, path, NoName, elevate, auto_elevate) }

\* a faulty variant of SetRegSame: the types are compared as given
SetRegSameUnnormalised(got, value, reg_type) ==
    got.data = value /\ TInt(got.type) = reg_type

\* reg.py:322: (get_val, normalise(get_type)) == (value, normalise(reg_type))
SetRegSame(got, value, reg_type) ==
    got.data = value /\ Normalise(TInt(got.type)).v = Normalise(reg_type).v

\* reg.py:318-325
SetRegSkip(c, path, name, value, reg_type, elevate, auto_elevate) ==
    UNION {
        IF g.r.k = "raise"
        THEN IF g.r.e = "RegistryItemNotFoundError"
             THEN SetRegWrite(g.c, path, name, value, reg_type, TRUE, elevate, auto_elevate)
             ELSE {g}
        ELSE IF Normalise(reg_type).k = "raise" THEN {Out(g.c, Normalise(reg_type))}
        ELSE IF SetRegSame(g.r.v, value, reg_type) THEN {Out(g.c, Ok(PyNone))}
        ELSE SetRegWrite(g.c, path, name, value, reg_type, TRUE, elevate, auto_elevate)
        : g \in GetReg(c, path, name, elevate, auto_elevate) }

\* a faulty variant of SetRegShape: any() in place of all()
SetRegShapeAny(name, value, reg_type) ==
    IF name # NoName \/ value # PyNone \/ reg_type # PyNone THEN "new" ELSE "key"

\* reg.py:311-316: "new", "key", or "bad"
SetRegShape(name, value, reg_type) ==
    IF name # NoName /\ value # PyNone /\ reg_type # PyNone THEN "new"
    ELSE IF name = NoName /\ value = PyNone /\ reg_type = PyNone THEN "key"
    ELSE "bad"

SetReg(c, path, name, value, reg_type, skip, elevate, auto_elevate) ==
    LET shape == SetRegShape(name, value, reg_type)
    IN RegHandleError(
        IF shape = "bad" THEN {Out(c, Raise("ValueError"))}
        ELSE IF skip /\ shape = "new"
        THEN SetRegSkip(c, path, name, value, reg_type, elevate, auto_elevate)
        ELSE SetRegWrite(c, path, name, value, reg_type, shape = "new", elevate, auto_elevate))

RECURSIVE DelReg(_, _, _, _, _)

\* reg.py:419-428
DelRegOutput(o, path, name, elevate, auto_elevate) ==
    IF o.r.k = "raise" THEN {o}
    ELSE IF Stripped(o.r.v.out) \/ Stripped(o.r.v.err)
    THEN LET e == RegCheckError(o.r.v.out \o o.r.v.err)
         IN IF e = "RegistryPermissionError"
            THEN IF auto_elevate /\ ~elevate
                 THEN DelReg(Logged(o.c, AskEv(TRUE)), path, name, TRUE, TRUE)
                      \cup {Out(Logged(o.c, AskEv(FALSE)), Raise(e))}
                 ELSE {Out(o.c, Raise(e))}
            ELSE IF e # "none" THEN {Out(o.c, Raise(e))}
                 ELSE {Out(o.c, Raise("RuntimeError"))}
    ELSE {Out(o.c, Ok(PyNone))}

\* a faulty variant of DelRegMissing: the early return is never taken
DelRegMissingNever(t) == FALSE

\* reg.py:406-407
DelRegMissing(t) == ~t

DelReg(c, path, name, elevate, auto_elevate) ==
    RegHandleError(UNION {
        IF t.r.k = "raise" THEN {t}
        ELSE IF DelRegMissing(t.r.v) THEN {Out(t.c, Ok(PyNone))}
        ELSE UNION {
            DelRegOutput(o, path, name, elevate, auto_elevate)
            : o \in RunPs(t.c,
                          IF name = NoName /\ path # << >>
                          THEN Cmd("Remove-Item", path, NoName, "", "")
                          ELSE Cmd("Remove-ItemProperty", path, name, "", ""),
                          elevate, auto_elevate, FALSE) }
        : t \in TestReg(c, path, name, elevate, auto_elevate) })

(***************************************************************************)
(* pnp_errors.check_error.  rc is str(rc), "None" when the caller gives    *)
(* no return code.                                                         *)
(***************************************************************************)
DevErrorOrder == <<"DevicePermissionError", "DeviceOperationAbortedError",
                   "DeviceNotFoundError", "DevicePropertyExistsError">>
\* the texts in use that contain the digits 50
Has50 == {"50", "150", "500", "1050", "HID\\VID_0506&PID_5001"}
DevErrorMap(e) ==
    CASE e = "DevicePermissionError" -> {MsgNotAllowed, MsgDenied}
      [] e = "DeviceOperationAbortedError" -> {MsgCancelled}
      [] e = "DeviceNotFoundError" -> {"No devices were found on the system."}
      [] e = "DevicePropertyExistsError" ->
            {MsgAlreadyEnabled, MsgAlreadyDisabled} \cup Has50
      [] OTHER -> {}
AllDevErrors == { DevErrorOrder[n] : n \in 1..Len(DevErrorOrder) }
\* a faulty variant of DevCheckError: nothing is recognised
DevCheckErrorNothing(text, rc) == "none"

\* pnp_errors.check_error(output, rc, errors=...)
DevCheck(text, rc, errors) ==
    FirstMatch(DevErrorOrder,
               { e \in errors : (Folded(text) \cup {rc}) \cap DevErrorMap(e) # {} })

\* check_error(output, rc): every error of the map
DevCheckError(text, rc) == DevCheck(text, rc, AllDevErrors)

(***************************************************************************)
(* Device, Touchscreen, Touchpad                                           *)
(***************************************************************************)
DEVICE == "device"
SYSTEM == "system"
USER == "user"
MODES == {DEVICE, SYSTEM, USER}
DISABLE == "disable"
ENABLE == "enable"
NONE == "none"
STATES == {DISABLE, ENABLE, NONE}
\* Python None passed as state or mode
NotGiven == "<None>"

Key(path, name, type) == [path |-> path, name |-> name, type |-> type]
SysPath == <<"HKLM", "Wisp", "Touch">>
UserPath == <<"HKCU", "Wisp", "Touch">>
PadPath == <<"HKCU", "PrecisionTouchPad", "Status">>
SYSTEM_KEY(class) == Key(SysPath, "TouchGate", TInt(4))
USER_KEY(class) ==
    IF class = "Touchscreen" THEN Key(UserPath, "TouchGate", TInt(4))
    ELSE Key(PadPath, "Enabled", TInt(4))
DEVICE_NAMES(class) ==
    IF class = "Touchscreen" THEN {"touch screen", "touchscreen"}
    ELSE {"touch pad", "touchpad"}

\* n.lower() in b.lower(), on the descriptions in use
NameIn(n, t) ==
    <<n, t>> \in {<<"touch screen", "HID-compliant touch screen">>,
                  <<"touch pad", "HID-compliant touch pad">>,
                  <<"touchpad", "Precision Touchpad">>}

\* a faulty variant of DevWrap: the errors pass as they come
DevWrapNothing(r) == r

\* Device.handle_error, model.py:70-83
DevWrap(r) ==
    IF r.k = "raise" /\ r.e \in {"UserAbortedError", "RegistryOperationAbortedError"}
    THEN Raise("DeviceOperationAbortedError")
    ELSE IF r.k = "raise" /\ r.e \in {"AccessDeniedError", "RegistryPermissionError"}
         THEN Raise("DevicePermissionError")
         ELSE r
DevHandleError(S) == { Out(o.c, DevWrap(o.r)) : o \in S }

\* a faulty variant of MatchingBlocks: only the first match is kept
MatchingBlocksFirst(out, names) ==
    LET all == SelectSeq(out, LAMBDA b :
                   /\ \E l \in 1..Len(b), n \in names : NameIn(n, b[l].k) \/ NameIn(n, b[l].v)
                   /\ \E l \in 1..Len(b) : b[l].k # "")
    IN IF all = << >> THEN all ELSE << all[1] >>

\* model.py:129-137: the blocks kept, in order
MatchingBlocks(out, names) ==
    SelectSeq(out, LAMBDA b :
        /\ \E l \in 1..Len(b), n \in names : NameIn(n, b[l].k) \/ NameIn(n, b[l].v)
        /\ \E l \in 1..Len(b) : b[l].k # "")

\* dict of a block: the fields, a later line of the same name wins
HasField(b, f) == \E l \in 1..Len(b) : b[l].k = f
Field(b, f) == b[CHOOSE l \in 1..Len(b) :
                   b[l].k = f /\ \A m \in 1..Len(b) : b[m].k = f => m <= l].v

RECURSIVE GetDevice(_, _, _, _, _)

\* model.py:117-145
GetDeviceOutput(o, names, get_all, elevate, auto_elevate) ==
    IF o.r.k = "raise" THEN {o}
    ELSE LET e == DevCheckError(o.r.v.out \o o.r.v.err, "None")
             blocks == MatchingBlocks(o.r.v.out, names)
         IN IF e = "DevicePermissionError"
            THEN IF auto_elevate /\ ~elevate
                 THEN GetDevice(Logged(o.c, AskEv(TRUE)), names, get_all, TRUE, TRUE)
                      \cup {Out(Logged(o.c, AskEv(FALSE)),
                                Raise("DeviceOperationAbortedError"))}
                 ELSE {Out(o.c, Raise(e))}
            ELSE IF e # "none" THEN {Out(o.c, Raise(e))}
            ELSE IF get_all THEN {Out(o.c, Ok(blocks))}
            ELSE IF Len(blocks) # 1 THEN {Out(o.c, Raise("DeviceNotFoundError"))}
            ELSE {Out(o.c, Ok(blocks[1]))}

GetDevice(c, names, get_all, elevate, auto_elevate) ==
    DevHandleError(UNION {
        GetDeviceOutput(o, names, get_all, elevate, auto_elevate)
        : o \in RunPs(c, Cmd("enum-devices", << >>, NoName, "", ""), elevate, FALSE, FALSE) })

\* str.capitalize() of the field names in use
Capitalize(f) ==
    CASE f = "Problem Code" -> "Problem code"
      [] f = "Problem Status" -> "Problem status"
      [] OTHER -> f

\* Device.get_field, model.py:147-164
GetField(c, class, field, strict) ==
    { IF o.r.k = "raise" THEN o
      ELSE IF HasField(o.r.v, Capitalize(field))
           THEN Out(o.c, Ok(PyStr(Field(o.r.v, Capitalize(field)))))
           ELSE IF strict THEN Out(o.c, Raise("DevicePropertyNotFoundError"))
                ELSE Out(o.c, Ok(PyNone))
      : o \in GetDevice(c, DEVICE_NAMES(class), FALSE, FALSE, TRUE) }

\* Device.get_problem, model.py:208-213: two reads of the device, one after
\* the other, each with strict=False
GetProblem(c, class) ==
    UNION { IF o1.r.k = "raise" THEN {o1}
            ELSE { IF o2.r.k = "raise" THEN o2
                   ELSE Out(o2.c, Ok(<<o1.r.v, o2.r.v>>))
                   : o2 \in GetField(o1.c, class, "Problem Status", FALSE) }
            : o1 \in GetField(c, class, "Problem Code", FALSE) }

\* a faulty variant of Lower: the text is compared as printed
LowerAsPrinted(t) == t

\* str.lower() of the status texts
Lower(t) ==
    CASE t = "Disabled" -> "disabled"
      [] t = "Started" -> "started"
      [] t = "Problem" -> "problem"
      [] t = "Stopped" -> "stopped"
      [] OTHER -> t

\* Device.device_enabled, model.py:177-185
DeviceEnabled(c, class) ==
    { IF o.r.k = "raise" THEN o
      ELSE Out(o.c, Ok(Lower(o.r.v.s) # "disabled"))
      : o \in GetField(c, class, "Status", TRUE) }

\* Device.device_exists, model.py:166-175
DeviceExists(c, class) ==
    { IF o.r.k = "raise"
      THEN IF o.r.e = "DeviceNotFoundError" THEN Out(o.c, Ok(FALSE)) ELSE o
      ELSE Out(o.c, Ok(TRUE))
      : o \in GetDevice(c, DEVICE_NAMES(class), FALSE, FALSE, TRUE) }

\* Device.device_running, model.py:187-196
DeviceRunning(c, class) ==
    { IF o.r.k = "raise" THEN o
      ELSE Out(o.c, Ok(Lower(o.r.v.s) = "started"))
      : o \in GetField(c, class, "Status", TRUE) }

\* Device.device_working, model.py:198-206
DeviceWorking(c, class) ==
    { IF o.r.k = "raise" THEN o
      ELSE Out(o.c, Ok(Lower(o.r.v.s) # "problem"))
      : o \in GetField(c, class, "Status", TRUE) }

\* a faulty variant of CheckKeyValue: the type of the value is not compared
CheckKeyValueAnyType(got, key) ==
    IF got.data = PyInt(0) THEN "False"
    ELSE IF got.data = PyInt(1) THEN "True"
    ELSE "None"

\* Device._check_key, model.py:215-239: "True", "False" or "None"
CheckKeyValue(got, key) ==
    IF Normalise(TInt(got.type)).v # Normalise(key.type).v THEN "None"
    ELSE IF got.data = PyInt(0) THEN "False"
    ELSE IF got.data = PyInt(1) THEN "True"
    ELSE "None"

CheckKey(c, key) ==
    DevHandleError({
        IF o.r.k = "raise"
        THEN IF o.r.e = "RegistryItemNotFoundError" THEN Out(o.c, Ok("None")) ELSE o
        ELSE Out(o.c, Ok(CheckKeyValue(o.r.v, key)))
        : o \in GetReg(c, key.path, key.name, FALSE, TRUE) })

\* Device.system_enabled, Touchpad.system_enabled
SystemEnabled(c, class) ==
    IF class = "Touchpad" THEN {Out(c, Raise("NotImplementedError"))}
    ELSE CheckKey(c, SYSTEM_KEY(class))

\* Device.user_enabled
UserEnabled(c, class) == CheckKey(c, USER_KEY(class))

\* a faulty variant of UserActiveBy: the system level is not consulted
UserActiveByUserOnly(sys, usr) == usr # "False"

\* model.py:258-267: the result, from system_enabled and user_enabled
UserActiveBy(sys, usr) ==
    IF sys \in {"True", "None"}
    THEN IF usr = "False" THEN FALSE ELSE TRUE
    ELSE IF usr \in {"False", "None"} THEN FALSE ELSE TRUE

\* model.py:268-272
UserActiveNoSystem(usr) == IF usr = "False" THEN FALSE ELSE TRUE

\* Device.user_active, model.py:251-274
UserActive(c, class) ==
    UNION {
        IF d.r.k = "raise" THEN {d}
        ELSE IF ~d.r.v THEN {Out(d.c, Ok(FALSE))}
        ELSE UNION {
            IF s.r.k = "raise"
            THEN IF s.r.e = "NotImplementedError"
                 THEN { IF u.r.k = "raise" THEN u
                        ELSE Out(u.c, Ok(UserActiveNoSystem(u.r.v)))
                        : u \in UserEnabled(s.c, class) }
                 ELSE {s}
            ELSE { IF u.r.k = "raise" THEN u
                   ELSE Out(u.c, Ok(UserActiveBy(s.r.v, u.r.v)))
                   : u \in UserEnabled(s.c, class) }
            : s \in SystemEnabled(d.c, class) }
        : d \in DeviceEnabled(c, class) }

\* a faulty variant of Check: Touchpad does not override _check
CheckOfDevice(class, state, mode) ==
    IF state # NotGiven /\ state \notin {ENABLE, DISABLE, NONE} THEN "AssertionError"
    ELSE IF mode # NotGiven /\ mode \notin {DEVICE, SYSTEM, USER} THEN "AssertionError"
    ELSE IF mode = DEVICE /\ state # NotGiven /\ state = NONE THEN "AssertionError"
    ELSE "ok"

\* Device._check and Touchpad._check, model.py:276-283, 385-388:
\* "ok", or the exception raised
Check(class, state, mode) ==
    IF state # NotGiven /\ state \notin {ENABLE, DISABLE, NONE} THEN "AssertionError"
    ELSE IF mode # NotGiven /\ mode \notin {DEVICE, SYSTEM, USER} THEN "AssertionError"
    ELSE IF mode = DEVICE /\ state # NotGiven /\ state = NONE THEN "AssertionError"
    ELSE IF class = "Touchpad" /\ mode = SYSTEM THEN "NotImplementedError"
    ELSE "ok"

\* a faulty variant of HasSuccess: the output is not looked at
HasSuccessUnchecked(text) == TRUE

\* 'success' in output
HasSuccess(text) == Tokens(text) \cap {MsgEnabled, MsgDisabled} # {}

RECURSIVE ToggleInner(_, _, _, _, _, _)

\* model.py:298-320
ToggleDeviceOutput(o, class, state, mode, elevate, auto_elevate) ==
    IF o.r.k = "raise" THEN {o}
    ELSE LET output == o.r.v.out \o o.r.v.err
             e == IF Stripped(output) THEN DevCheckError(output, "None") ELSE "none"
         IN IF e = "DevicePermissionError"
            THEN IF auto_elevate /\ ~elevate
                 THEN ToggleInner(Logged(o.c, AskEv(TRUE)), class, state, mode, TRUE, TRUE)
                      \cup {Out(Logged(o.c, AskEv(FALSE)),
                                Raise("DeviceOperationAbortedError"))}
                 ELSE {Out(o.c, Raise(e))}
            ELSE IF e = "DevicePropertyExistsError" THEN {Out(o.c, Ok(PyNone))}
            ELSE IF e # "none" THEN {Out(o.c, Raise(e))}
            ELSE IF HasSuccess(output) THEN {Out(o.c, Ok(PyNone))}
            ELSE {Out(o.c, Raise("PnpError"))}

\* model.py:294-297
ToggleDevice(c, class, state, mode, elevate, auto_elevate) ==
    UNION {
        IF d.r.k = "raise" THEN {d}
        ELSE IF ~HasField(d.r.v, "Instance ID") THEN {Out(d.c, Raise("KeyError"))}
        ELSE UNION {
            ToggleDeviceOutput(o, class, state, mode, elevate, auto_elevate)
            : o \in RunPs(d.c,
                          Cmd(IF state = ENABLE THEN "enable-device"
                              ELSE IF state = DISABLE THEN "disable-device"
                              ELSE "None-device",
                              << >>, Field(d.r.v, "Instance ID"), "", ""),
                          elevate, FALSE, FALSE) }
        : d \in GetDevice(c, DEVICE_NAMES(class), FALSE, FALSE, TRUE) }

\* a faulty variant of ToggleRegistry: enable writes 0 and disable writes 1
ToggleRegistryInverted(c, class, state, mode) ==
    LET key == IF mode = SYSTEM THEN SYSTEM_KEY(class) ELSE USER_KEY(class)
    IN IF state = NotGiven THEN {Out(c, Ok(PyNone))}
       ELSE IF mode = NotGiven THEN {Out(c, Raise("UnboundLocalError"))}
       ELSE IF state = DISABLE
       THEN SetReg(c, key.path, key.name, PyInt(1), key.type, TRUE, FALSE, TRUE)
       ELSE IF state = ENABLE
       THEN SetReg(c, key.path, key.name, PyInt(0), key.type, TRUE, FALSE, TRUE)
       ELSE UNION {
           IF t.r.k = "raise" THEN {t}
           ELSE IF t.r.v THEN DelReg(t.c, key.path, key.name, FALSE, TRUE)
           ELSE {Out(t.c, Ok(PyNone))}
           : t \in TestReg(c, key.path, key.name, FALSE, TRUE) }

\* a faulty variant of ToggleRegistry: the key of the user level is used
\* for the system level too
ToggleRegistryOfUser(c, class, state, mode) ==
    LET key == USER_KEY(class)
    IN IF state = NotGiven THEN {Out(c, Ok(PyNone))}
       ELSE IF mode = NotGiven THEN {Out(c, Raise("UnboundLocalError"))}
       ELSE IF state = DISABLE
       THEN SetReg(c, key.path, key.name, PyInt(0), key.type, TRUE, FALSE, TRUE)
       ELSE IF state = ENABLE
       THEN SetReg(c, key.path, key.name, PyInt(1), key.type, TRUE, FALSE, TRUE)
       ELSE UNION {
           IF t.r.k = "raise" THEN {t}
           ELSE IF t.r.v THEN DelReg(t.c, key.path, key.name, FALSE, TRUE)
           ELSE {Out(t.c, Ok(PyNone))}
           : t \in TestReg(c, key.path, key.name, FALSE, TRUE) }

\* model.py:322-334
ToggleRegistry(c, class, state, mode) ==
    LET key == IF mode = SYSTEM THEN SYSTEM_KEY(class) ELSE USER_KEY(class)
    IN IF state = NotGiven THEN {Out(c, Ok(PyNone))}
       ELSE IF mode = NotGiven THEN {Out(c, Raise("UnboundLocalError"))}
       ELSE IF state = DISABLE
       THEN SetReg(c, key.path, key.name, PyInt(0), key.type, TRUE, FALSE, TRUE)
       ELSE IF state = ENABLE
       THEN SetReg(c, key.path, key.name, PyInt(1), key.type, TRUE, FALSE, TRUE)
       ELSE UNION {
           IF t.r.k = "raise" THEN {t}
           ELSE IF t.r.v THEN DelReg(t.c, key.path, key.name, FALSE, TRUE)
           ELSE {Out(t.c, Ok(PyNone))}
           : t \in TestReg(c, key.path, key.name, FALSE, TRUE) }

\* Device._toggle, model.py:285-334
ToggleInner(c, class, state, mode, elevate, auto_elevate) ==
    DevHandleError(
        IF Check(class, state, mode) # "ok"
        THEN {Out(c, Raise("DeviceInvalidOperationError"))}
        ELSE IF mode = DEVICE
        THEN ToggleDevice(c, class, state, mode, elevate, auto_elevate)
        ELSE ToggleRegistry(c, class, state, mode))

(***************************************************************************)
(* Observable                                                              *)
(***************************************************************************)
ObsNames == <<"o1", "o2", "o3", "o4">>
Observers == { ObsNames[n] : n \in 1..NumObservers }
UpdateEv(who) == Ev("update", Cmd("update", << >>, who, "", ""), FALSE, "none", FALSE)

RECURSIVE NotifyTwice(_, _)
\* a faulty variant of Notify: an observer is updated twice, as one that is
\* registered twice would be
NotifyTwice(c, obs) ==
    IF obs = {} THEN c
    ELSE LET who == CHOOSE w \in obs : TRUE
         IN NotifyTwice(Logged(Logged(c, UpdateEv(who)), UpdateEv(who)), obs \ {who})

\* Observable.notify, observe.py:99-105: update() of every observer
RECURSIVE Notify(_, _)
Notify(c, obs) ==
    IF obs = {} THEN c
    ELSE LET who == CHOOSE w \in obs : TRUE
         IN Notify(Logged(c, UpdateEv(who)), obs \ {who})

\* a faulty variant of Observed: notify also when the method raised
ObservedAlways(o, obs) == Out(Notify(o.c, obs), o.r)

\* Observable.observed, observe.py:107-123
Observed(o, obs) ==
    IF o.r.k = "raise" THEN o ELSE Out(Notify(o.c, obs), o.r)

\* a faulty variant of Toggle: the observers are notified first
ToggleNotifyFirst(c, class, obs, state, mode, elevate, auto_elevate) ==
    ToggleInner(Notify(c, obs), class, state, mode, elevate, auto_elevate)

\* Device.toggle, model.py:336-339
Toggle(c, class, obs, state, mode, elevate, auto_elevate) ==
    { Observed(o, obs) : o \in ToggleInner(c, class, state, mode, elevate, auto_elevate) }

(***************************************************************************)
(* State: the registry and the devices of the machine, the Device object   *)
(* (its class and its observers) and the call just made.  A call is made   *)
(* when the caller is idle and is one step; Return hands control back.     *)
(***************************************************************************)
Ctx == [keys |-> keys, vals |-> vals, dev |-> dev, log |-> << >>, tmp |-> << >>]
World == [keys |-> keys, vals |-> vals, dev |-> dev]
NoArgs == [path |-> << >>]
Idle == [op |-> "idle", args |-> NoArgs, res |-> Ok(PyNone), log |-> << >>,
         tmp |-> << >>, pre |-> [keys |-> {}, vals |-> << >>, dev |-> << >>]]

Commit(op, args, o) ==
    /\ keys' = o.c.keys
    /\ vals' = o.c.vals
    /\ dev' = o.c.dev
    /\ last' = [op |-> op, args |-> args, res |-> o.r, log |-> o.c.log,
                tmp |-> o.c.tmp, pre |-> World]
    /\ UNCHANGED <<cls, observers>>

Return ==
    /\ last.op # "idle"
    /\ last' = Idle
    /\ UNCHANGED <<keys, vals, dev, cls, observers>>

(***************************************************************************)
(* The registry API called directly, as system/command/reg/test_reg.py     *)
(* does, on a key under the test base.                                     *)
(***************************************************************************)
Base == <<"HKCU">>
Test1 == <<"HKCU", "test1">>
Test2 == <<"HKCU", "test1", "test2">>
RegPaths == {Test1, Test2}
TestVal == "testval"
Names == {NoName, TestVal}
Values == { PyInt(n) : n \in 0..MaxData } \cup {PyStr("a"), PyList("a")}
TypeInputs == {TInt(4), TStr("DWord"), TInt(1), TInt(7), TInt(0)}
InitEntries ==
    { Entry(4, PyInt(n)) : n \in 0..MaxData }
    \cup {Entry(1, PyStr("a")), Entry(7, PyList("a"))}

InitReg ==
    /\ keys \in {{Base}, {Base, Test1}, {Base, Test1, Test2}}
    /\ \/ vals = << >>
       \/ \E p \in keys \cap RegPaths, e \in InitEntries :
             vals = PutVal(<< >>, <<p, TestVal>>, e)
    /\ dev = << >>
    /\ cls = "none"
    /\ observers = {}
    /\ last = Idle

CallTestReg ==
    /\ last.op = "idle"
    /\ \E path \in RegPaths, name \in Names, elevate \in BOOLEAN, auto_elevate \in BOOLEAN :
         \E o \in TestReg(Ctx, path, name, elevate, auto_elevate) :
            Commit("test_reg",
                   [path |-> path, name |-> name, elevate |-> elevate,
                    auto_elevate |-> auto_elevate], o)

CallGetReg ==
    /\ last.op = "idle"
    /\ \E path \in RegPaths, elevate \in BOOLEAN, auto_elevate \in BOOLEAN :
         \E o \in GetReg(Ctx, path, TestVal, elevate, auto_elevate) :
            Commit("get_reg",
                   [path |-> path, name |-> TestVal, elevate |-> elevate,
                    auto_elevate |-> auto_elevate], o)

CallSetReg ==
    /\ last.op = "idle"
    /\ \E path \in RegPaths, name \in Names, value \in Values \cup {PyNone},
          reg_type \in TypeInputs \cup {PyNone}, skip \in BOOLEAN,
          elevate \in BOOLEAN, auto_elevate \in BOOLEAN :
         \E o \in SetReg(Ctx, path, name, value, reg_type, skip, elevate, auto_elevate) :
            Commit("set_reg",
                   [path |-> path, name |-> name, value |-> value,
                    reg_type |-> reg_type, skip |-> skip, elevate |-> elevate,
                    auto_elevate |-> auto_elevate], o)

CallDelReg ==
    /\ last.op = "idle"
    /\ \E path \in RegPaths, name \in Names, elevate \in BOOLEAN, auto_elevate \in BOOLEAN :
         \E o \in DelReg(Ctx, path, name, elevate, auto_elevate) :
            Commit("del_reg",
                   [path |-> path, name |-> name, elevate |-> elevate,
                    auto_elevate |-> auto_elevate], o)

\* the representations of a registry type: codes, REG_ names, unprefixed
\* low-level names, kind names and friendly names, in the casings in use
TypeReps ==
    { TInt(n) : n \in -MaxCode..MaxCode }
    \cup { TStr(t) : t \in WinapiNames \cup KindNames }
    \cup { TStr(t) : t \in {"DWord", "dword", " DWord ", "QWord", "qword", "String",
                            "string", "ExpandString", "MultiString", "Binary",
                            "None", "none", "Unknown", "reg_dword", "Reg_DWord",
                            "reg_sz", "reg_link", "SZ", "sz", "EXPAND_SZ",
                            "MULTI_SZ", "LINK", "link", "DWORD_BIG_ENDIAN",
                            "RESOURCE_LIST", "REG_BOGUS", "REG_STRING", "BOGUS",
                            "bogus"} }

CallNormalise ==
    /\ last.op = "idle"
    /\ \E t \in TypeReps :
         Commit("normalise", [path |-> << >>, t |-> t], Out(Ctx, Normalise(t)))

CallGetName ==
    /\ last.op = "idle"
    /\ \E t \in TypeReps, pretty \in BOOLEAN :
         Commit("get_name", [path |-> << >>, t |-> t, pretty |-> pretty],
                Out(Ctx, GetName(t, pretty)))

NextReg ==
    \/ CallTestReg
    \/ CallGetReg
    \/ CallSetReg
    \/ CallDelReg
    \/ CallNormalise
    \/ CallGetName
    \/ Return

SpecReg == InitReg /\ [][NextReg]_vars

(***************************************************************************)
(* Run and the three classifiers called directly.                          *)
(***************************************************************************)
CallRunPs ==
    /\ last.op = "idle"
    /\ \E cmd \in RunCmds, elevate \in BOOLEAN, auto_elevate \in BOOLEAN, check \in BOOLEAN :
         \E o \in RunPs(Ctx, cmd, elevate, auto_elevate, check) :
            Commit("run_ps",
                   [path |-> << >>, cmd |-> cmd, elevate |-> elevate,
                    auto_elevate |-> auto_elevate, check |-> check], o)

CallTestPs ==
    /\ last.op = "idle"
    /\ \E o \in TestPs(Ctx) : Commit("test_ps", NoArgs, o)

\* outputs given to the classifiers: one block of the lines listed
TextOf(ms) == << [i \in 1..Len(ms) |-> Line("", ms[i])] >>
Texts ==
    { TextOf(ms) : ms \in {
        << >>, <<MsgUnexpected>>, <<MsgDenied>>, <<"ACCESS IS DENIED.">>,
        <<MsgCancelled>>, <<MsgCancelled, MsgDenied>>,
        <<MsgBlocked, MsgNotRecognized>>, <<"THIS PROGRAM IS BLOCKED BY GROUP POLICY.">>,
        <<MsgNoPath, MsgNotAllowed>>, <<"The key already exists.", MsgItemNotFound>>,
        <<MsgAlreadyEnabled>>, <<"DEVICE IS ALREADY ENABLED.">>,
        <<MsgAlreadyDisabled, "No devices were found on the system.">>,
        <<"HID\\VID_0506&PID_5001">> } }
\* str(rc) of the return codes given to the device classifier
Rcs == {"None", "0", "1", "50", "150", "500", "1050"}
Classifiers == {"cmd", "reg", "pnp"}
ErrorsOf(which) ==
    CASE which = "cmd" -> AllCmdErrors
      [] which = "reg" -> AllRegErrors
      [] which = "pnp" -> AllDevErrors
\* check_error of the classifier; the return code is read by pnp_errors only
CheckError(which, text, rc, errors) ==
    LET e == CASE which = "cmd" -> CmdCheckError(text, errors)
               [] which = "reg" -> RegCheck(text, errors)
               [] which = "pnp" -> DevCheck(text, rc, errors)
    IN IF e = "none" THEN Ok(PyNone) ELSE Raise(e)

CallCheckError ==
    /\ last.op = "idle"
    /\ \E which \in Classifiers, text \in Texts, rc \in Rcs :
         \E errors \in SUBSET ErrorsOf(which) :
            /\ which # "pnp" => rc = "None"
            /\ Commit("check_error",
                      [path |-> << >>, which |-> which, text |-> text, rc |-> rc,
                       errors |-> errors],
                      Out(Ctx, CheckError(which, text, rc, errors)))

NextRun ==
    \/ CallRunPs
    \/ CallTestPs
    \/ CallCheckError
    \/ CallGetReg
    \/ Return

SpecRun == InitReg /\ [][NextRun]_vars

(***************************************************************************)
(* The Device object of the application: a Touchscreen or a Touchpad, its  *)
(* observers, and the calls the controllers make on it.                    *)
(***************************************************************************)
Dev(id, desc, status) == [id |-> id, desc |-> desc, status |-> status]
DescOf(class) ==
    IF class = "Touchscreen" THEN "HID-compliant touch screen"
    ELSE "HID-compliant touch pad"
Mouse == Dev("HID\\MOUSE", "HID-compliant mouse", "Started")
Statuses == {"Started", "Disabled", "Problem"}
InitDevs(class) ==
    { << Mouse, Dev("HID\\TOUCH", DescOf(class), st) >> : st \in Statuses }
    \cup {<< Mouse >>}
    \cup {<< Dev("HID\\TOUCH", DescOf(class), "Started"),
              Dev("HID\\TOUCH2", DescOf(class), "Disabled") >>}
\* the data the model tells apart (0, 1, another number) as DWord, and 1 as
\* a QWord
DevEntries == { Entry(4, PyInt(n)) : n \in {0, 1, 2} } \cup {Entry(11, PyInt(1))}
\* a key of the device: absent with its parent, present without the value,
\* or present with the value
InitKey(k, p, f) ==
    \/ k = {} /\ f = << >>
    \/ k = Prefixes(p) /\ f = << >>
    \/ k = Prefixes(p) /\ \E e \in DevEntries, name \in {"TouchGate", "Enabled"} :
            f = PutVal(<< >>, <<p, name>>, e)

StateInputs == STATES \cup {"reset", NotGiven}
ModeInputs == MODES \cup {"driver", NotGiven}

Init ==
    /\ cls \in {"Touchscreen", "Touchpad"}
    /\ dev \in InitDevs(cls)
    /\ \E ks \in SUBSET Prefixes(SysPath), ku \in SUBSET Prefixes(USER_KEY(cls).path),
          fs \in {<< >>} \cup { PutVal(<< >>, <<SysPath, "TouchGate">>, e) : e \in DevEntries },
          fu \in {<< >>} \cup { PutVal(<< >>, <<USER_KEY(cls).path, USER_KEY(cls).name>>, e)
                               : e \in DevEntries } :
         /\ InitKey(ks, SysPath, fs)
         /\ InitKey(ku, USER_KEY(cls).path, fu)
         /\ cls = "Touchpad" => ks = {}
         /\ keys = {<<"HKLM">>, <<"HKCU">>} \cup ks \cup ku
         /\ vals = [x \in DOMAIN fs \cup DOMAIN fu |->
                       IF x \in DOMAIN fs THEN fs[x] ELSE fu[x]]
    /\ observers = {}
    /\ last = Idle

Attach ==
    /\ last.op = "idle"
    /\ \E who \in Observers : observers' = observers \cup {who}
    /\ UNCHANGED <<keys, vals, dev, cls, last>>

Detach ==
    /\ last.op = "idle"
    /\ \E who \in Observers : observers' = observers \ {who}
    /\ UNCHANGED <<keys, vals, dev, cls, last>>

CallToggle ==
    /\ last.op = "idle"
    /\ \E state \in StateInputs, mode \in ModeInputs, elevate \in BOOLEAN,
          auto_elevate \in BOOLEAN :
         \E o \in Toggle(Ctx, cls, observers, state, mode, elevate, auto_elevate) :
            Commit("toggle",
                   [state |-> state, mode |-> mode, elevate |-> elevate,
                    auto_elevate |-> auto_elevate], o)

CallUserActive ==
    /\ last.op = "idle"
    /\ \E o \in UserActive(Ctx, cls) : Commit("user_active", NoArgs, o)

CallSystemEnabled ==
    /\ last.op = "idle"
    /\ \E o \in SystemEnabled(Ctx, cls) : Commit("system_enabled", NoArgs, o)

CallUserEnabled ==
    /\ last.op = "idle"
    /\ \E o \in UserEnabled(Ctx, cls) : Commit("user_enabled", NoArgs, o)

CallDeviceExists ==
    /\ last.op = "idle"
    /\ \E o \in DeviceExists(Ctx, cls) : Commit("device_exists", NoArgs, o)

CallDeviceEnabled ==
    /\ last.op = "idle"
    /\ \E o \in DeviceEnabled(Ctx, cls) : Commit("device_enabled", NoArgs, o)

CallDeviceRunning ==
    /\ last.op = "idle"
    /\ \E o \in DeviceRunning(Ctx, cls) : Commit("device_running", NoArgs, o)

CallDeviceWorking ==
    /\ last.op = "idle"
    /\ \E o \in DeviceWorking(Ctx, cls) : Commit("device_working", NoArgs, o)

CallGetDevice ==
    /\ last.op = "idle"
    /\ \E get_all \in BOOLEAN, elevate \in BOOLEAN, auto_elevate \in BOOLEAN :
         \E o \in GetDevice(Ctx, DEVICE_NAMES(cls), get_all, elevate, auto_elevate) :
            Commit("get_device",
                   [get_all |-> get_all, elevate |-> elevate,
                    auto_elevate |-> auto_elevate], o)

Next ==
    \/ Attach
    \/ Detach
    \/ CallToggle
    \/ CallUserActive
    \/ CallSystemEnabled
    \/ CallUserEnabled
    \/ CallDeviceExists
    \/ CallDeviceEnabled
    \/ CallDeviceRunning
    \/ CallDeviceWorking
    \/ CallGetDevice
    \/ Return

Spec == Init /\ [][Next]_vars

(***************************************************************************)
(* The read accessors of the Device on a wider inventory: a device whose   *)
(* instance id holds the digits 50 besides the devices of Init.            *)
(***************************************************************************)
Vid50 == "HID\\VID_0506&PID_5001"
WideDevs(class) ==
    InitDevs(class) \cup {<< Mouse, Dev(Vid50, DescOf(class), "Started") >>}

InitDev ==
    /\ cls \in {"Touchscreen", "Touchpad"}
    /\ dev \in WideDevs(cls)
    /\ keys = {<<"HKLM">>, <<"HKCU">>}
    /\ vals = << >>
    /\ observers = {}
    /\ last = Idle

CallGetProblem ==
    /\ last.op = "idle"
    /\ \E o \in GetProblem(Ctx, cls) : Commit("get_problem", NoArgs, o)

NextDev ==
    \/ CallGetDevice
    \/ CallGetProblem
    \/ CallDeviceExists
    \/ CallDeviceEnabled
    \/ Return

SpecDev == InitDev /\ [][NextDev]_vars

(***************************************************************************)
(* CardController of a device card, controller/device.py: the status       *)
(* button of the card toggles the three modes with the defaults of the     *)
(* card, one after the other.                                              *)
(***************************************************************************)
ModeOrder == <<DEVICE, SYSTEM, USER>>
\* DEFAULTS of TouchscreenController and TouchpadController through
\* Base._get_const: True is enable, False is disable, None is none
DEFAULTS(class, new) ==
    IF class = "Touchscreen"
    THEN [device |-> new, system |-> new, user |-> NONE]
    ELSE [device |-> new, system |-> NONE, user |-> NONE]
NoticeEv(what, choice) ==
    Ev("notice", Cmd(what, << >>, NoName, "", ""), FALSE, choice, FALSE)
PowerChoices == {"signout", "restart", "later"}

\* CardController.handle_error around one model.toggle,
\* controller/device.py:105-133: "go on", or the outcome the card ends with
ModelToggle(c, class, obs, options, mode) ==
    { IF o.r.k = "ok" \/ o.r.e = "DeviceInvalidOperationError"
      THEN Out(o.c, Ok("go on"))
      ELSE IF o.r.e = "DeviceOperationAbortedError"
      THEN Out(Logged(o.c, NoticeEv("Error.aborted", "none")), Ok("False"))
      ELSE IF o.r.e = "DevicePermissionError"
      THEN Out(Logged(o.c, NoticeEv("Error.access_denied", "none")), Ok("False"))
      ELSE o
      : o \in Toggle(c, class, obs, options[mode], mode, FALSE, TRUE) }

\* the processes of one call that do not run as asked, and the outcomes in
\* which no more than MaxFaults of them do
Faulty(log) == { i \in DOMAIN log : log[i].t = "cmd" /\ log[i].fault # "none" }
Within(S) == { o \in S : Cardinality(Faulty(o.c.log)) <= MaxFaults }

RECURSIVE CardModes(_, _, _, _, _)
\* controller/device.py:142-153: the loop over the modes from the n-th on,
\* then the power dialog and the success notice; outcomes with more failing
\* processes than the bound are left out as soon as they arise
CardModes(c, class, obs, options, n) ==
    IF n > Len(ModeOrder)
    THEN { Out(Logged(Logged(c, NoticeEv("Ask.button_option", ch)),
                      NoticeEv("Info.showinfo", "none")), Ok("None"))
           : ch \in PowerChoices }
    ELSE UNION { IF o.r.k = "ok" /\ o.r.v = "go on"
                 THEN CardModes(o.c, class, obs, options, n + 1)
                 ELSE {o}
                 : o \in Within(ModelToggle(c, class, obs, options, ModeOrder[n])) }

\* CardController.toggle(old, new), controller/device.py:135-154
CardToggle(c, class, obs, new, confirmed) ==
    LET c1 == Logged(c, Ev("confirm", Cmd("Ask.yesno", << >>, NoName, "", ""),
                           FALSE, "none", confirmed))
    IN IF ~confirmed THEN {Out(c1, Ok("False"))}
       ELSE CardModes(c1, class, obs, DEFAULTS(class, new), 1)

CallCardToggle ==
    /\ last.op = "idle"
    /\ \E old \in {ENABLE, DISABLE}, new \in {ENABLE, DISABLE}, confirmed \in BOOLEAN :
         \E o \in CardToggle(Ctx, cls, observers, new, confirmed) :
            /\ o \in Within({o})
            /\ Commit("card_toggle", [path |-> << >>, old |-> old, new |-> new], o)

\* the machine of a card: the device of the class started or disabled, the
\* keys of its levels absent or holding the DWord 1
InitCard ==
    /\ cls \in {"Touchscreen", "Touchpad"}
    /\ \E st \in {"Started", "Disabled"} : dev = << Mouse, Dev("HID\\TOUCH", DescOf(cls), st) >>
    /\ \E set \in BOOLEAN :
         LET cells == IF cls = "Touchscreen"
                      THEN {<<SysPath, "TouchGate">>, <<UserPath, "TouchGate">>}
                      ELSE {<<PadPath, "Enabled">>}
         IN /\ keys = {<<"HKLM">>, <<"HKCU">>}
                      \cup (IF set THEN UNION { Prefixes(x[1]) : x \in cells } ELSE {})
            /\ vals = [x \in (IF set THEN cells ELSE {}) |-> Entry(4, PyInt(1))]
    /\ observers = {}
    /\ last = Idle

NextCard ==
    \/ CallCardToggle
    \/ Return

SpecCard == InitCard /\ [][NextCard]_vars

(***************************************************************************)
(* Properties                                                              *)
(***************************************************************************)
NoFault(log) == \A i \in DOMAIN log : log[i].fault = "none"
\* the result of a call when every process runs as asked
Calm(S) == (CHOOSE o \in S : NoFault(o.c.log)).r
Asks(log) == { i \in DOMAIN log : log[i].t = "ask" }
Declined(log) == { i \in Asks(log) : ~log[i].ans }
Granted(log) == { i \in Asks(log) : log[i].ans }
Commands(log) == { i \in DOMAIN log : log[i].t = "cmd" }
ElevatedCommands(log) == { i \in Commands(log) : log[i].elev }
DeniedCommands(log) == { i \in Commands(log) : log[i].fault = "denied" }
Mutating(log) ==
    { i \in Commands(log) :
        log[i].cmd.kind \in {"Set-ItemProperty", "New-Item", "Remove-Item",
                             "Remove-ItemProperty"} }
Updates(log, who) == { i \in DOMAIN log : log[i].t = "update" /\ log[i].cmd.name = who }
Raised(e) == last.res.k = "raise" /\ last.res.e = e

\* the precedence table of the claim; sys is "n/a" without a system level
Precedence(devOn, sys, usr) ==
    IF ~devOn THEN FALSE
    ELSE IF sys = "n/a" THEN usr # "False"
    ELSE IF sys \in {"True", "None"} THEN usr # "False"
    ELSE usr = "True"

SystemLevel == LET r == Calm(SystemEnabled(Ctx, cls)) IN IF r.k = "ok" THEN r.v ELSE "n/a"

\* C1: whenever user_active returns, its value is the precedence function of
\* device_enabled, system_enabled and user_enabled: False when the device is
\* disabled; with system True or None, False iff user is False; with system
\* False, True iff user is True; without a system level, False iff the
\* device is disabled or user is False.
C1_UserActivePrecedence ==
    (last.op = "user_active" /\ last.res.k = "ok") =>
        /\ Calm(DeviceEnabled(Ctx, cls)).k = "ok"
        /\ Calm(UserEnabled(Ctx, cls)).k = "ok"
        /\ last.res.v = Precedence(Calm(DeviceEnabled(Ctx, cls)).v, SystemLevel,
                                   Calm(UserEnabled(Ctx, cls)).v)

C1_Witness ==
    /\ last.op = "user_active" /\ last.res.k = "ok" /\ last.res.v = TRUE
    /\ SystemLevel = "False"
    /\ Calm(UserEnabled(Ctx, cls)).v = "True"

C3_OneRetryPerCall ==
    (last.op \in {"get_reg", "set_reg", "del_reg"} /\ ~last.args.elevate) =>
        /\ Cardinality(Asks(last.log)) <= 1
        /\ Cardinality(ElevatedCommands(last.log)) <= 1

\* C4: when the user declines an elevation prompt during toggle,
\* get_device, system_enabled or user_enabled the call fails with
\* DeviceOperationAbortedError, and DevicePermissionError is raised only
\* when access was denied and no prompt was declined.
C4_DeclineAborts ==
    last.op \in {"toggle", "get_device", "system_enabled", "user_enabled"} =>
        /\ Declined(last.log) # {} => Raised("DeviceOperationAbortedError")
        /\ Raised("DevicePermissionError") =>
              DeniedCommands(last.log) # {} /\ Declined(last.log) = {}

\* C5: a set_reg with auto_elevate, not elevated, or a toggle of a registry
\* level, in which a command reports permission denied and Ask.elevate
\* answers false, raises the aborted error of its layer
\* (RegistryOperationAbortedError, DeviceOperationAbortedError), and the
\* prompt is the last thing that happens: no command is run after it and
\* the registry is as before.
C5_DeclineStopsSetReg ==
    /\ (/\ last.op = "set_reg" /\ last.args.auto_elevate /\ ~last.args.elevate
        /\ DeniedCommands(last.log) # {} /\ Granted(last.log) = {}) =>
           /\ Raised("RegistryOperationAbortedError")
           /\ Cardinality(Asks(last.log)) = 1
           /\ last.log[Len(last.log)] = AskEv(FALSE)
           /\ World = last.pre
    /\ (/\ last.op = "toggle" /\ last.args.mode \in {SYSTEM, USER}
        /\ DeniedCommands(last.log) # {} /\ Granted(last.log) = {}) =>
           /\ Raised("DeviceOperationAbortedError")
           /\ Cardinality(Asks(last.log)) = 1
           /\ last.log[Len(last.log)] = AskEv(FALSE)
           /\ World = last.pre

C5_Witness ==
    /\ last.op = "set_reg" /\ last.args.auto_elevate /\ ~last.args.elevate
    /\ Raised("RegistryOperationAbortedError")
    /\ Len(last.log) >= 4
    /\ last.log[Len(last.log) - 1].cmd.kind = "Set-ItemProperty"
    /\ last.log[Len(last.log) - 1].fault = "denied"
    /\ last.log[Len(last.log)] = AskEv(FALSE)

IsSet == last.op = "set_reg"
\* how many of name, value and reg_type the call was given: "new" for all
\* three, "key" for none, "bad" for some
Given ==
    (IF last.args.name # NoName THEN 1 ELSE 0)
    + (IF last.args.value # PyNone THEN 1 ELSE 0)
    + (IF last.args.reg_type # PyNone THEN 1 ELSE 0)
Shape == IF Given = 3 THEN "new" ELSE IF Given = 0 THEN "key" ELSE "bad"
Target == <<last.args.path, last.args.name>>
\* the type names a kind of number or of string and the payload is of the
\* Python type that get_reg returns for it
Consistent(value, reg_type) ==
    LET n == Normalise(reg_type).v
    IN /\ n \in {1, 2, 4, 11}
       /\ n \in {4, 11} => value.tag = "int"
       /\ n \in {1, 2} => value.tag = "str"

\* C6: after a set_reg of a named value that nothing hinders (every process
\* runs as asked), of a number as DWord or QWord or of a string as String
\* or ExpandString, a following get_reg returns the value and the
\* normalised type just written, whether or not the value or its key
\* existed before.
C6_SetThenGet ==
    (/\ IsSet /\ Shape = "new" /\ NoFault(last.log)
     /\ Consistent(last.args.value, last.args.reg_type)) =>
        Calm(GetReg(Ctx, last.args.path, last.args.name, FALSE, TRUE))
            = Ok([data |-> last.args.value,
                  type |-> Normalise(last.args.reg_type).v])

\* C7: a set_reg, unhindered, on a key path that does not exist returns
\* normally and leaves the key, its missing parents and the named value (if
\* one was given) in place, so that test_reg(path) is true; in particular
\* it does not fail with RuntimeError when the key is absent.
C7_SetCreatesKey ==
    (/\ IsSet /\ Shape # "bad" /\ NoFault(last.log)
     /\ last.args.path \notin last.pre.keys
     /\ Shape = "new" => Consistent(last.args.value, last.args.reg_type)) =>
        /\ last.res.k = "ok"
        /\ Prefixes(last.args.path) \subseteq keys
        /\ Shape = "new" => Target \in DOMAIN vals
        /\ Calm(TestReg(Ctx, last.args.path, NoName, FALSE, TRUE)) = Ok(TRUE)

\* the value at the target before the call equals the one asked for
AlreadySet ==
    /\ Target \in DOMAIN last.pre.vals
    /\ last.pre.vals[Target].data = last.args.value
    /\ Normalise(TInt(last.pre.vals[Target].kind)) = Normalise(last.args.reg_type)

\* C8: set_reg with skip, on a value that already has the data and a type
\* of the same code, runs no mutating command, changes nothing, and returns
\* normally unless a process failed.
C8_SkipWhenAlreadySet ==
    (IsSet /\ Shape = "new" /\ last.args.skip /\ AlreadySet) =>
        /\ Mutating(last.log) = {}
        /\ World = last.pre
        /\ NoFault(last.log) => last.res = Ok(PyNone)

C8_Witness ==
    /\ IsSet /\ Shape = "new" /\ last.args.skip /\ AlreadySet
    /\ last.args.reg_type = TStr("DWord")
    /\ last.res = Ok(PyNone)
    /\ Commands(last.log) # {}

TargetMissing ==
    IF last.args.name = NoName THEN last.args.path \notin last.pre.keys
    ELSE Target \notin DOMAIN last.pre.vals

\* C9: del_reg of a key or a value that does not exist runs no Remove-Item
\* and no Remove-ItemProperty, changes nothing, and returns normally unless
\* a process failed.
C9_DeleteMissingIsNoOp ==
    (last.op = "del_reg" /\ TargetMissing) =>
        /\ Mutating(last.log) = {}
        /\ World = last.pre
        /\ NoFault(last.log) => last.res = Ok(PyNone)

C9_Witness ==
    /\ last.op = "del_reg" /\ TargetMissing
    /\ last.args.name # NoName /\ last.args.path \in last.pre.keys
    /\ last.res = Ok(PyNone) /\ Commands(last.log) # {}

\* C10: set_reg with some but not all of name, value and reg_type raises
\* ValueError with no command run and the registry unchanged; with none or
\* all of them it is not refused that way.
C10_PartialArgumentsRefused ==
    IsSet =>
        IF Shape = "bad"
        THEN Raised("ValueError") /\ last.log = << >> /\ World = last.pre
        ELSE ~(Raised("ValueError") /\ last.log = << >>)

C10_Witness ==
    /\ IsSet /\ Raised("ValueError") /\ last.log = << >>
    /\ last.args.name # NoName /\ last.args.value # PyNone
    /\ last.args.reg_type = PyNone
\* the code a representation stands for, by the tables of the registry
\* API: -99 for a name that is in none of them
CodeOf(t) ==
    IF t.tag = "int" THEN t.i
    ELSE LET u == Upper(t.s)
         IN IF u \in WinapiNames THEN WINAPI_REG_TYPES(u)
            ELSE IF RegPrefixed(u) \in WinapiNames THEN WINAPI_REG_TYPES(RegPrefixed(u))
            ELSE IF u \in KindNames THEN REG_VALUE_KINDS(u)
            ELSE -99
Unsupported(t) == CodeOf(t) # -99 /\ CodeOf(t) \notin {-1, 0, 1, 2, 3, 4, 7, 11}

\* C11: normalise applied to its own result gives that result again, for
\* every representation it accepts; it accepts every integer and every name
\* of the tables in any casing, and an unsupported code (5, 6, 8, 9, 10, ...)
\* gives 0 rather than an error.
C11_NormaliseIdempotent ==
    last.op = "normalise" =>
        /\ last.res.k = "ok" => Normalise(TInt(last.res.v)) = last.res
        /\ CodeOf(last.args.t) # -99 => last.res.k = "ok"
        /\ Unsupported(last.args.t) => last.res = Ok(0)
        /\ last.log = << >> /\ World = last.pre

C11_Witness ==
    /\ last.op = "normalise" /\ last.args.t = TStr("reg_link")
    /\ last.res = Ok(0)

\* C12: get_name of an unsupported code, or of a name that stands for one,
\* raises ValueError (no name found), while normalise of the same input
\* returns 0.
C12_GetNameOfUnsupportedFails ==
    (last.op = "get_name" /\ Unsupported(last.args.t)) =>
        /\ Raised("ValueError")
        /\ Normalise(last.args.t) = Ok(0)
IsToggle == last.op = "toggle"
NoUpdates == \A i \in DOMAIN last.log : last.log[i].t # "update"
Untouched == last.log = << >> /\ World = last.pre

\* C13 as stated: toggle with mode system on a Touchpad fails with the
\* error of a missing level (NotImplementedError) and runs no command.
C13_NoSystemKeyNotApplicable ==
    (IsToggle /\ cls = "Touchpad" /\ last.args.mode = SYSTEM) =>
        Raised("NotImplementedError") /\ Untouched

\* C13, amended: toggle with mode system on a Touchpad, for any state, fails
\* with DeviceInvalidOperationError, runs no command, notifies nobody and
\* changes nothing.
C13_NoSystemKeyInvalidOperation ==
    (IsToggle /\ cls = "Touchpad" /\ last.args.mode = SYSTEM) =>
        Raised("DeviceInvalidOperationError") /\ Untouched

C13_Witness ==
    /\ IsToggle /\ cls = "Touchpad" /\ last.args.mode = SYSTEM
    /\ last.args.state = ENABLE /\ observers # {}
    /\ Raised("DeviceInvalidOperationError") /\ Untouched

\* the pair is one the claim calls invalid
BadPair ==
    \/ last.args.state \notin {ENABLE, DISABLE, NONE}
    \/ last.args.mode \notin {DEVICE, SYSTEM, USER}
    \/ last.args.state = NONE /\ last.args.mode = DEVICE

\* C14: toggle with state none and mode device, with a state outside
\* {enable, disable, none} or with a mode outside {device, system, user}
\* fails with DeviceInvalidOperationError, with no command run and nobody
\* notified.
C14_BadPairRefused ==
    (IsToggle /\ BadPair) =>
        Raised("DeviceInvalidOperationError") /\ Untouched

\* the last command of the call and what it printed; the commands before it
\* in a toggle of the device change nothing
LastCommand == last.log[CHOOSE i \in Commands(last.log) : \A j \in Commands(last.log) : j <= i]
PreCtx == [keys |-> last.pre.keys, vals |-> last.pre.vals, dev |-> last.pre.dev,
           log |-> << >>, tmp |-> << >>]
Printed ==
    LET x == Exec(PreCtx, LastCommand.cmd, LastCommand.fault)
    IN Tokens(x.out \o x.err)
SaysSuccess == Printed \cap {MsgEnabled, MsgDisabled} # {}
SaysAlready == Printed \cap ({MsgAlreadyEnabled, MsgAlreadyDisabled} \cup Has50) # {}

\* C15: a toggle of the device returns normally only if its last command
\* was the enable or disable command and printed a success text or a text
\* classified as already in that state; with any other output, a return
\* code of 0 and the bare banner included, it raises and notifies nobody.
C15_SuccessTextRequired ==
    (IsToggle /\ last.args.mode = DEVICE) =>
        /\ last.res.k = "ok" =>
              /\ Commands(last.log) # {}
              /\ LastCommand.cmd.kind \in {"enable-device", "disable-device"}
              /\ LastCommand.fault # "uac"
              /\ SaysSuccess \/ SaysAlready
        /\ last.res.k = "raise" => NoUpdates

C15_Witness ==
    /\ IsToggle /\ last.args.mode = DEVICE /\ last.args.state = DISABLE
    /\ observers # {}
    /\ LastCommand.cmd.kind = "disable-device" /\ LastCommand.fault = "silent"
    /\ Raised("PnpError") /\ NoUpdates

\* the devices that match the names of the class, before the call
Matching ==
    { n \in DOMAIN last.pre.dev :
        \E nm \in DEVICE_NAMES(cls) : NameIn(nm, last.pre.dev[n].desc) }
TheDevice == last.pre.dev[CHOOSE n \in Matching : TRUE]
AlreadyThere ==
    /\ Cardinality(Matching) = 1
    /\ \/ last.args.state = ENABLE /\ TheDevice.status # "Disabled"
       \/ last.args.state = DISABLE /\ TheDevice.status = "Disabled"

\* C16: toggle(enable, device) on a device that is enabled, or disable on
\* one that is disabled, where every process runs as asked and the command
\* reports that the device is already so, returns normally, leaves the
\* device as it was and notifies every attached observer exactly once.
C16_AlreadyInStateSucceeds ==
    (IsToggle /\ last.args.mode = DEVICE /\ AlreadyThere /\ NoFault(last.log)) =>
        /\ last.res.k = "ok"
        /\ SaysAlready
        /\ World = last.pre
        /\ \A who \in observers : Cardinality(Updates(last.log, who)) = 1

C16_Witness ==
    /\ IsToggle /\ last.args.mode = DEVICE /\ last.args.state = ENABLE
    /\ AlreadyThere /\ NoFault(last.log) /\ observers # {}
    /\ last.res.k = "ok" /\ ~NoUpdates
\* the registry value of a level of the class
CellOf(mode) ==
    LET key == IF mode = SYSTEM THEN SYSTEM_KEY(cls) ELSE USER_KEY(cls)
    IN <<key.path, key.name>>
\* what a level says in a registry: 1 and 0 count as DWord only
Reading(v, mode) ==
    IF CellOf(mode) \notin DOMAIN v THEN "None"
    ELSE IF v[CellOf(mode)].kind # 4 THEN "None"
    ELSE IF v[CellOf(mode)].data = PyInt(1) THEN "True"
    ELSE IF v[CellOf(mode)].data = PyInt(0) THEN "False"
    ELSE "None"
Query(mode) ==
    Calm(IF mode = SYSTEM THEN SystemEnabled(Ctx, cls) ELSE UserEnabled(Ctx, cls))

\* C17: after a toggle of a registry level (mode system or user) that
\* returns normally, the value of that level is the DWord 1 for enable, the
\* DWord 0 for disable and absent for none, and the query of the level then
\* answers True, False and None.
C17_RegistryToggleSetsLevel ==
    (/\ IsToggle /\ last.args.mode \in {SYSTEM, USER}
     /\ last.args.state \in STATES /\ last.res.k = "ok") =>
        LET cell == CellOf(last.args.mode)
        IN /\ last.args.state = ENABLE =>
                /\ cell \in DOMAIN vals /\ vals[cell] = Entry(4, PyInt(1))
                /\ Query(last.args.mode) = Ok("True")
           /\ last.args.state = DISABLE =>
                /\ cell \in DOMAIN vals /\ vals[cell] = Entry(4, PyInt(0))
                /\ Query(last.args.mode) = Ok("False")
           /\ last.args.state = NONE =>
                /\ cell \notin DOMAIN vals
                /\ Query(last.args.mode) = Ok("None")

C17_Witness ==
    /\ IsToggle /\ last.args.mode = SYSTEM /\ last.args.state = ENABLE
    /\ last.res.k = "ok"
    /\ CellOf(SYSTEM) \in DOMAIN last.pre.vals
    /\ last.pre.vals[CellOf(SYSTEM)] = Entry(11, PyInt(1))
    /\ vals[CellOf(SYSTEM)] = Entry(4, PyInt(1))

IsLevelQuery == last.op \in {"system_enabled", "user_enabled"}
Level == IF last.op = "system_enabled" THEN SYSTEM ELSE USER

\* C20: system_enabled and user_enabled, when they return, give True for
\* a stored DWord 1, False for a stored DWord 0 and None when the value is
\* absent, of another type or holds other data, and they return whenever
\* every process runs as asked; system_enabled of a Touchpad raises
\* NotImplementedError without running a command.
C20_LevelQueries ==
    IsLevelQuery =>
        IF cls = "Touchpad" /\ Level = SYSTEM
        THEN Raised("NotImplementedError") /\ Untouched
        ELSE /\ last.res.k = "ok" => last.res.v = Reading(last.pre.vals, Level)
             /\ NoFault(last.log) => last.res.k = "ok"
             /\ World = last.pre

C20_Witness ==
    /\ last.op = "user_enabled"
    /\ CellOf(USER) \in DOMAIN last.pre.vals
    /\ last.pre.vals[CellOf(USER)] = Entry(11, PyInt(1))
    /\ last.res.k = "ok" /\ last.res.v = "None"
IsRunPs == last.op = "run_ps"

\* C21: run_ps asks Ask.elevate only when the output of its run shows
\* access denied, auto_elevate is true and the run was not elevated, and
\* then exactly once: on consent the same command is invoked again
\* elevated (and no further prompt follows), on refusal the call fails with
\* UserAbortedError and runs nothing more; with auto_elevate false or an
\* elevated run there is never a prompt.
C21_PromptOnceOnDenied ==
    IsRunPs =>
        /\ Cardinality(Asks(last.log)) <= 1
        /\ (~last.args.auto_elevate \/ last.args.elevate) => Asks(last.log) = {}
        /\ (Len(last.log) >= 1 /\ last.log[1].fault # "denied") => Asks(last.log) = {}
        /\ (/\ last.args.auto_elevate /\ ~last.args.elevate
            /\ Len(last.log) >= 1 /\ last.log[1].fault = "denied") =>
              /\ Len(last.log) >= 2 /\ last.log[2].t = "ask"
              /\ IF last.log[2].ans
                 THEN /\ Len(last.tmp) = 4
                      /\ last.args.cmd.kind # "unencodable" =>
                            /\ Len(last.log) = 3 /\ last.log[3].t = "cmd"
                            /\ last.log[3].cmd = last.args.cmd /\ last.log[3].elev
                 ELSE /\ Raised("UserAbortedError")
                      /\ Len(last.log) = 2 /\ last.tmp = << >>

C21_Witness ==
    /\ IsRunPs /\ last.args.auto_elevate /\ ~last.args.elevate
    /\ Len(last.log) = 3 /\ last.log[1].fault = "denied"
    /\ last.log[2].t = "ask" /\ last.log[2].ans
    /\ last.log[3].elev /\ last.log[3].fault = "none" /\ last.res.k = "ok"

\* what the run of a command event printed, to the process read by run_ps
RunOutput(e) ==
    IF e.elev /\ e.fault = "uac" THEN Message(MsgCancelled)
    ELSE IF e.elev /\ e.fault = "blocked" THEN Message(MsgBlocked)
    ELSE LET x == Exec(PreCtx, e.cmd, IF e.fault = "locked" THEN "none" ELSE e.fault)
         IN x.out \o x.err
\* the kinds of cmd_errors that have a pattern in a text
KindsIn(text) == { k \in AllCmdErrors : Folded(text) \cap CmdErrorMap(k) # {} }

\* the command itself ran and printed (the process that elevates it was not
\* stopped before)
CommandRan(e) == ~(e.elev /\ e.fault \in {"uac", "blocked"})

\* C22: a run_ps that runs its command once, without a prompt, raises a
\* classified condition found in the output of the command when check is
\* true, and returns the tuple when check is false, elevated or not.
C22_StrictRaisesClassified ==
    (/\ IsRunPs /\ Cardinality(Commands(last.log)) = 1 /\ Asks(last.log) = {}
     /\ CommandRan(last.log[1])) =>
        LET K == KindsIn(RunOutput(last.log[1]))
        IN /\ (last.args.check /\ K # {}) =>
                last.res.k = "raise" /\ last.res.e \in K
           /\ (~last.args.check /\ K # {}) => last.res.k = "ok"

\* C23: test_ps runs one command, unelevated and without a prompt, and
\* returns False when the output of that command matches the patterns of a
\* shell blocked by group policy, and True otherwise.
C23_ProbeReportsBlockedShell ==
    last.op = "test_ps" =>
        /\ Asks(last.log) = {} /\ Len(last.log) = 1 /\ ~last.log[1].elev
        /\ last.res.k = "ok"
        /\ last.res.v = ("PowershellDisabledError" \notin KindsIn(RunOutput(last.log[1])))

\* C24: when a call exits, normally or with any error, every temporary
\* file it made has been removed or its removal was tried.
C24_TemporaryFilesRemoved ==
    last.op \in {"run_ps", "test_ps", "get_reg"} =>
        \A i \in DOMAIN last.tmp : last.tmp[i].state \in {"deleted", "failed"}
\* the commands of a call that read (listing, read of a value, test) and
\* those that change the device or the registry
Reads(log) ==
    { i \in Commands(log) : log[i].cmd.kind \in {"enum-devices", "Get-Item", "Test-Path"} }
Writes(log) == Commands(log) \ Reads(log)
AllUpdates(log) == { i \in DOMAIN log : log[i].t = "update" }

\* C25: in a toggle the first command is a read, so every command that
\* changes something comes after a read, and every update of an observer
\* comes after every command of the call; observers are updated only when
\* the call returns normally.
C25_ReadWriteNotifyOrder ==
    IsToggle =>
        /\ \A w \in Writes(last.log) : \E r \in Reads(last.log) : r < w
        /\ \A u \in AllUpdates(last.log) : \A i \in Commands(last.log) : i < u
        /\ AllUpdates(last.log) # {} => last.res.k = "ok"

C25_Witness ==
    /\ IsToggle /\ last.args.mode = USER /\ last.args.state = ENABLE
    /\ Mutating(last.log) # {} /\ Reads(last.log) # {} /\ AllUpdates(last.log) # {}
    /\ last.res.k = "ok"
IsTestReg == last.op = "test_reg"

\* C26: test_reg without a name runs Test-Path only and, when it returns,
\* tells whether the key exists; with a name it runs the read of get_reg
\* only and, when it returns, tells whether the value exists under an
\* existing key; when every process runs as asked it returns and does not
\* raise for a missing key or value, and its answer is True exactly when
\* get_reg succeeds.
C26_TestReg ==
    IsTestReg =>
        /\ \A i \in Commands(last.log) :
              last.log[i].cmd.kind =
                  IF last.args.name = NoName THEN "Test-Path" ELSE "Get-Item"
        /\ NoFault(last.log) => last.res.k = "ok"
        /\ last.res.k = "ok" =>
              /\ last.res.v = IF last.args.name = NoName
                              THEN last.args.path \in last.pre.keys
                              ELSE /\ last.args.path \in last.pre.keys
                                   /\ Target \in DOMAIN last.pre.vals
              /\ last.args.name # NoName =>
                    last.res.v = (Calm(GetReg(Ctx, last.args.path, last.args.name,
                                              FALSE, TRUE)).k = "ok")
        /\ World = last.pre

C26_Witness ==
    /\ IsTestReg /\ last.args.name # NoName
    /\ last.args.path \in last.pre.keys /\ Target \notin DOMAIN last.pre.vals
    /\ NoFault(last.log) /\ last.res.k = "ok" /\ ~last.res.v

\* C27: the observers are a set: attaching one that is attached and
\* detaching one that is not leave it as it is, so after a toggle that
\* returns normally every observer that is attached has been updated
\* exactly once and every observer that is not attached not at all.
C27_AttachedUpdatedOnce ==
    (IsToggle /\ last.res.k = "ok") =>
        \A who \in Observers :
            Cardinality(Updates(last.log, who)) = IF who \in observers THEN 1 ELSE 0

C27_Witness ==
    /\ IsToggle /\ last.args.mode = USER /\ last.args.state = NONE
    /\ last.res.k = "ok" /\ observers = Observers
    /\ \A who \in Observers : Cardinality(Updates(last.log, who)) = 1

IsCheckError == last.op = "check_error"
OrderOf(which) ==
    CASE which = "cmd" -> CmdErrorOrder
      [] which = "reg" -> RegErrorOrder
      [] which = "pnp" -> DevErrorOrder
PatternsOf(which, k) ==
    CASE which = "cmd" -> CmdErrorMap(k)
      [] which = "reg" -> RegErrorMap(k)
      [] which = "pnp" -> DevErrorMap(k)
\* the places in the order of the kinds that are allowed and have a pattern
\* in the output (or, for the device classifier, in the return code)
Allowed ==
    LET a == last.args
        seen == Folded(a.text) \cup (IF a.which = "pnp" THEN {a.rc} ELSE {})
    IN { n \in 1..Len(OrderOf(a.which)) :
           /\ OrderOf(a.which)[n] \in a.errors
           /\ seen \cap PatternsOf(a.which, OrderOf(a.which)[n]) # {} }

\* C28: check_error of each classifier raises the kind that comes first in
\* the order of its map among the kinds of the subset that have a matching
\* pattern, whatever the case of the output, and returns normally when no
\* kind of the subset has one.
C28_FirstKindInOrder ==
    IsCheckError =>
        IF Allowed = {} THEN last.res.k = "ok"
        ELSE /\ last.res.k = "raise"
             /\ \E n \in Allowed :
                   /\ last.res.e = OrderOf(last.args.which)[n]
                   /\ \A m \in Allowed : n <= m

C28_Witness ==
    /\ IsCheckError /\ last.args.which = "cmd"
    /\ last.args.text = TextOf(<<MsgCancelled, MsgDenied>>)
    /\ last.args.errors = AllCmdErrors
    /\ Raised("AccessDeniedError")

\* C29: the device classifier raises DevicePropertyExistsError only for an
\* output that says the device is already enabled or disabled or for the
\* return code 50 itself.
C29_OnlyCode50 ==
    (IsCheckError /\ last.args.which = "pnp" /\ Raised("DevicePropertyExistsError")) =>
        \/ last.args.rc = "50"
        \/ Folded(last.args.text) \cap {MsgAlreadyEnabled, MsgAlreadyDisabled} # {}

\* C30: get_device(get_all=True), when the listing is obtained, returns the
\* fields of every device of the listing, whatever its description.
C30_GetAllIgnoresNames ==
    (last.op = "get_device" /\ last.args.get_all /\ NoFault(last.log)) =>
        /\ last.res.k = "ok"
        /\ last.res.v = [n \in 1..Len(last.pre.dev) |-> BlockOf(last.pre.dev[n])]

\* C31: get_problem, when it returns, gives for 'Problem Code' and for
\* 'Problem Status' the value of that field in the block of the device when
\* the block has the field, and None when it has not.
C31_ProblemFieldsReturned ==
    (last.op = "get_problem" /\ last.res.k = "ok") =>
        /\ Cardinality(Matching) = 1
        /\ \A i \in {1, 2} :
              LET f == <<"Problem Code", "Problem Status">>[i]
                  b == BlockOf(TheDevice)
              IN last.res.v[i] = IF HasField(b, f) THEN PyStr(Field(b, f)) ELSE PyNone

\* C32: when run_ps has rerun its command elevated after consent, its
\* result is one that a call elevated from the start, with the same command
\* and the same check, gives when its process behaves as the rerun did.
C32_RerunKeepsSettings ==
    (IsRunPs /\ Granted(last.log) # {}) =>
        \E o \in RunPs(PreCtx, last.args.cmd, TRUE, last.args.auto_elevate,
                       last.args.check) :
            /\ o.c.log = SubSeq(last.log, 3, Len(last.log))
            /\ o.r = last.res

\* C33: a set_reg of a named value (name, value and type given) in which
\* Ask.elevate was answered with consent never fails with ValueError, and
\* when it returns the named value is there.
C33_RetrySameOperation ==
    (IsSet /\ Shape = "new" /\ Granted(last.log) # {}) =>
        /\ ~Raised("ValueError")
        /\ last.res.k = "ok" => Target \in DOMAIN vals

\* C34: a toggle called with auto_elevate false (and elevate false) never
\* asks Ask.elevate and runs no elevated command, whatever the mode, and
\* when one of its commands is denied it raises DevicePermissionError.
C34_NoPromptWithoutAutoElevate ==
    (IsToggle /\ ~last.args.auto_elevate /\ ~last.args.elevate) =>
        /\ Asks(last.log) = {}
        /\ ElevatedCommands(last.log) = {}
        /\ DeniedCommands(last.log) # {} => Raised("DevicePermissionError")

\* C35: every toggle ends after at most 10 commands and 6 prompts, whatever
\* the processes print and whatever Ask.elevate answers: a rerun is
\* elevated, and an elevated run is not rerun.
C35_ToggleBounded ==
    IsToggle =>
        /\ Cardinality(Commands(last.log)) <= 10
        /\ Cardinality(Asks(last.log)) <= 6

C35_Witness ==
    /\ IsToggle
    /\ Cardinality(Commands(last.log)) = 10
    /\ Cardinality(Granted(last.log)) = 6

\* the errors of Run and Reg that Device.handle_error translates
LowerErrors == {"UserAbortedError", "RegistryOperationAbortedError",
                "AccessDeniedError", "RegistryPermissionError"}
\* the call ended with a command refused at the UAC dialog (run_ps raises
\* UserAbortedError), or with a denied read or write of the registry (Reg
\* raises RegistryPermissionError)
EndsCancelled ==
    /\ Commands(last.log) # {}
    /\ last.log[Len(last.log)].t = "cmd" /\ last.log[Len(last.log)].fault = "uac"
EndsDenied ==
    /\ Commands(last.log) # {}
    /\ last.log[Len(last.log)].t = "cmd" /\ last.log[Len(last.log)].fault = "denied"
    /\ last.log[Len(last.log)].cmd.kind \in
          {"Get-Item", "Set-ItemProperty", "New-Item", "Remove-Item", "Remove-ItemProperty"}

\* C36: no call on the Device raises an error of Run or Reg for a refusal
\* or a lack of permission: a call that ends with its last command refused
\* at the UAC dialog raises DeviceOperationAbortedError, and one that ends
\* with a denied read or write of the registry raises DevicePermissionError.
C36_LowerErrorsWrapped ==
    last.op \in {"toggle", "get_device", "system_enabled", "user_enabled", "user_active"} =>
        /\ last.res.k = "raise" => last.res.e \notin LowerErrors
        /\ EndsCancelled => Raised("DeviceOperationAbortedError")
        /\ EndsDenied => Raised("DevicePermissionError")

C36_Witness ==
    /\ last.op = "user_enabled" /\ EndsDenied
    /\ Granted(last.log) # {} /\ Raised("DevicePermissionError")

\* C37: for every supported code, get_name gives a name, plain or pretty,
\* that normalise takes back to that code.
C37_NameRoundTrip ==
    (/\ last.op = "get_name" /\ last.args.t.tag = "int"
     /\ last.args.t.i \in SUPPORTED_REG_TYPES) =>
        /\ last.res.k = "ok"
        /\ Normalise(TStr(last.res.v)) = Ok(last.args.t.i)

\* C38: get_device for one device, on a listing that is obtained as asked
\* (no text of a denial, a cancellation or a missing device in it) and has
\* exactly one matching block, returns the fields of that block, whatever
\* the instance id of the device is.
C38_FieldValuesNotClassified ==
    (/\ last.op = "get_device" /\ ~last.args.get_all
     /\ NoFault(last.log) /\ Cardinality(Matching) = 1) =>
        /\ last.res.k = "ok"
        /\ last.res.v = BlockOf(TheDevice)

\* the store of a mode in a world: the devices, or the keys and values of
\* the hive of the level
HiveOf(mode) == IF mode = SYSTEM THEN "HKLM" ELSE "HKCU"
StoreOf(w, mode) ==
    IF mode = DEVICE THEN [keys |-> {}, vals |-> {}, dev |-> w.dev]
    ELSE [keys |-> { k \in w.keys : k[1] = HiveOf(mode) },
          vals |-> { <<x, w.vals[x]>> : x \in { y \in DOMAIN w.vals : y[1][1] = HiveOf(mode) } },
          dev |-> << >>]

IsCardToggle == last.op = "card_toggle"
Notices(log, what) == { i \in DOMAIN log : log[i].t = "notice" /\ log[i].cmd.kind = what }

\* C40: when the toggle of a card returns False, the devices and the
\* registry are as they were before the call and no success notice is shown.
C40_CardAllOrNothing ==
    (IsCardToggle /\ last.res.k = "ok" /\ last.res.v = "False") =>
        /\ World = last.pre
        /\ Notices(last.log, "Info.showinfo") = {}
====
